---- MODULE Spec2Model ----
(***************************************************************************)
(* A model of the remote orchestration scripts of geomesa_cassandra_tools: *)
(*   - geomesa_cassandra.py : remove_table, the table-removal pipeline,    *)
(*     built from asyncio.gather fan-outs of run_command;                  *)
(*   - cluster.py           : Cluster, the fan-outs over Node methods;     *)
(*   - node.py              : Node.restart, the stop/start/poll loop.      *)
(* Remote hosts are the environment: a connection may fail, a command may  *)
(* return any exit status, write to stderr, or lose its transport.         *)
(***************************************************************************)
EXTENDS Integers, Sequences, FiniteSets, TLC

(***************************************************************************)
(* Bounds of the model.                                                    *)
(***************************************************************************)
\* Number of hosts listed in remotes.json.
NumNodes == 2

Nodes == 1..NumNodes

\* The keyspace and table the operations are called with.
Keyspace == "ks1"
Table == "tbl1"

(***************************************************************************)
(* Command results.  A result is what connection.run returns (stdout as a  *)
(* sequence of lines, each line the sequence of its whitespace-separated   *)
(* tokens; whether stderr is non-empty; the exit status) or an exception.  *)
(* The field node records the host the outcome comes from.                 *)
(***************************************************************************)
NoLines == << >>

NoResult == [kind |-> "none", node |-> 0, stdout |-> NoLines, stderr |-> FALSE, exit |-> 0]

Exc(n) == [kind |-> "exc", node |-> n, stdout |-> NoLines, stderr |-> FALSE, exit |-> 0]

Res(n, out, se, ex) == [kind |-> "result", node |-> n, stdout |-> out, stderr |-> se, exit |-> ex]

\* Output texts of "nodetool compactionstats" a host may produce.
CompactionOutputs ==
    { NoLines,
      << <<"c1", "COMPACTION", "ks1", "tbl1">> >>,
      << <<"--", "header", "--">>, <<"c2", "COMPACTION", "ks1", "tbl2">> >> }

\* Output texts of "nodetool listsnapshots" a host may produce.
SnapshotOutputs ==
    { NoLines,
      << <<"snap1", "ks1", "tbl1">> >>,
      << <<"Snapshot", "Details:">>, <<"snap2", "ks2", "tbl1">> >> }

\* The phases of remove_table: one per blocking run_until_complete call site.
Phases == { "flush", "compactionstats", "stop_compaction", "truncate",
            "listsnapshots", "clearsnapshot", "repair", "cleanup", "compact" }

\* What the remote command of a phase may print on stdout.
Stdouts(phase) ==
    CASE phase \in { "compactionstats", "find_table_compactions" } -> CompactionOutputs
      [] phase \in { "listsnapshots", "find_table_snapshots" }    -> SnapshotOutputs
      [] OTHER                     -> { NoLines }

\* Every way a command that was started on host n can end: a result with any
\* exit status and stderr, or the transport failing while it runs.
Outcomes(phase, n) ==
    { Exc(n) } \cup
    { Res(n, out, se, ex) : out \in Stdouts(phase), se \in BOOLEAN, ex \in {0, 1} }

\* A genuine execution error: an exception or a non-zero exit status.
Failed(r) == r.kind = "exc" \/ (r.kind = "result" /\ r.exit # 0)

(***************************************************************************)
(* Text parsers (geomesa_cassandra.py).                                    *)
(***************************************************************************)
\* Tokens holding a character outside [0-9a-zA-Z_] (but inside [0-9a-zA-Z-_]).
DashTokens == { "--" }

\* Tokens holding a character outside [0-9a-zA-Z-_].
OtherTokens == { "Details:", "tbl1.idx" }

IsDashWord(tok) == tok \notin OtherTokens

IsWord(tok) == tok \notin OtherTokens /\ tok \notin DashTokens

\* The longest prefix of a token made of [0-9a-zA-Z-_]: what the last group of
\* a pattern captures, since nothing has to follow it.
DashWordPrefix(tok) ==
    CASE tok = "Details:" -> "Details"
      [] tok = "tbl1.idx" -> "tbl1"
      [] OTHER            -> tok

None == [matched |-> FALSE]

\* re.match of id, type, keyspace, table at the start of the line.
parse_compaction(line) ==
    IF /\ Len(line) >= 4
       /\ IsDashWord(line[1]) /\ IsWord(line[2])
       /\ IsDashWord(line[3])
    THEN [matched |-> TRUE, id |-> line[1], type |-> line[2],
          keyspace |-> line[3], table |-> DashWordPrefix(line[4])]
    ELSE None

\* re.match of name, keyspace, table at the start of the line.
parse_snapshot(line) ==
    IF /\ Len(line) >= 3
       /\ IsDashWord(line[1]) /\ IsWord(line[2])
    THEN [matched |-> TRUE, name |-> line[1], keyspace |-> line[2],
          table |-> DashWordPrefix(line[3])]
    ELSE None

\* get_output_or_raise: does it raise for this gathered result?
get_output_or_raise_raises(r) == r.kind = "exc" \/ r.exit # 0

\* The compactions of (keyspace, table) in one host's output, in line order.
RECURSIVE NodeCompactions(_, _, _, _)
NodeCompactions(lines, n, keyspace, table) ==
    IF lines = << >> THEN << >>
    ELSE LET c == parse_compaction(Head(lines))
             rest == NodeCompactions(Tail(lines), n, keyspace, table)
         IN IF c.matched /\ c.keyspace = keyspace /\ c.table = table
            THEN << [node |-> n, compaction_id |-> c.id] >> \o rest
            ELSE rest

\* The snapshots of (keyspace, table) in one host's output, in line order.
RECURSIVE NodeSnapshots(_, _, _, _)
NodeSnapshots(lines, n, keyspace, table) ==
    IF lines = << >> THEN << >>
    ELSE LET s == parse_snapshot(Head(lines))
             rest == NodeSnapshots(Tail(lines), n, keyspace, table)
         IN IF s.matched /\ s.keyspace = keyspace /\ s.table = table
            THEN << [node |-> n, name |-> s.name, keyspace |-> s.keyspace] >> \o rest
            ELSE rest

\* find_table_compactions over the zipped (result, node) pairs, i.e. the loop
\* body applied to pairs k..Len(rs); only called when no result raises.
RECURSIVE find_table_compactions(_, _, _, _, _)
find_table_compactions(rs, nodes, k, keyspace, table) ==
    IF k > Len(rs) \/ k > Len(nodes) THEN << >>
    ELSE NodeCompactions(rs[k].stdout, nodes[k], keyspace, table)
         \o find_table_compactions(rs, nodes, k + 1, keyspace, table)

RECURSIVE find_table_snapshots(_, _, _, _, _)
find_table_snapshots(rs, nodes, k, keyspace, table) ==
    IF k > Len(rs) \/ k > Len(nodes) THEN << >>
    ELSE NodeSnapshots(rs[k].stdout, nodes[k], keyspace, table)
         \o find_table_snapshots(rs, nodes, k + 1, keyspace, table)

(***************************************************************************)
(* The same searches as the methods of Node make them (node.py), on the    *)
(* pair (stdout, stderr) that Remote.run returns.                          *)
(***************************************************************************)
\* What a listing command may write on stderr.
StderrOutputs == { NoLines, << <<"WARN", "deprecated">> >> }

\* The first character of a token.
FirstChar(tok) ==
    CASE tok \in { "snap1", "snap2" } -> "s"
      [] tok = "Snapshot"             -> "S"
      [] tok = "WARN"                 -> "W"
      [] OTHER                        -> "c"

\* result[0].splitlines() for a non-empty string result: the first character
\* of the text, as a text of one line.
Index0(text) == << << FirstChar(text[1][1]) >> >>

Ids(recs) == [k \in 1..Len(recs) |-> recs[k].compaction_id]

Names(recs) == [k \in 1..Len(recs) |-> recs[k].name]

\* The loop of Node.find_table_compactions over self.compactionstats()[0].
Node_find_table_compactions(result, keyspace, table) ==
    Ids(NodeCompactions(result[1], 0, keyspace, table))

\* The loops of Node.find_table_snapshots over the non-empty members of the
\* pair self.listsnapshots() returned.
RECURSIVE SnapshotsOfResults(_, _, _)
SnapshotsOfResults(results, keyspace, table) ==
    IF results = << >> THEN << >>
    ELSE Names(NodeSnapshots(Index0(Head(results)), 0, keyspace, table))
         \o SnapshotsOfResults(Tail(results), keyspace, table)

Node_find_table_snapshots(result, keyspace, table) ==
    SnapshotsOfResults(SelectSeq(result, LAMBDA x : x # NoLines), keyspace, table)


(***************************************************************************)
(* State.                                                                  *)
(***************************************************************************)
VARIABLES
    pc,           \* where remove_table is: "start", a phase, "done" or "raised"
    tasks,        \* the tasks of the event loop that have not been collected
    gid,          \* number of gather calls made so far; a task carries its call's
    compactions,  \* stop_compations_of_table: the list being iterated (a local)
    ci,           \* stop_compations_of_table: index of the compaction being stopped
    failedSteps,  \* history: the phases in which a command failed genuinely
    dispatched,   \* history: per phase, the hosts a command was created for, in order
    raisedIn      \* the phase in which an exception left remove_table, or "none"

pipelineVars == << pc, tasks, gid, compactions, ci, failedSteps, dispatched, raisedIn >>

VARIABLES
    cl_pc,        \* where the Cluster call is: "idle", "unpack", "connecting",
                  \* "running", "gather", "gathering", "returned" or "raised"
    cl_op,        \* the Cluster method called
    cl_i,         \* index of the node the task generator is at
    cl_items,     \* what the task generator has yielded so far
    cl_results,   \* the list the Cluster method returned
    cl_error,     \* the exception that left the Cluster method, or "none"
    cl_finished,  \* history: nodes whose command ran to its end and gave a result
    cl_raised,    \* history: nodes whose own command raised
    cl_connected  \* Remote.run: is the connection of the blocking command open?

clusterVars ==
    << cl_pc, cl_op, cl_i, cl_items, cl_results, cl_error, cl_finished, cl_raised,
       cl_connected >>

VARIABLES
    r_pc,          \* where Node.restart is: "idle", "stop", "start", "loop", "poll",
                   \* "sleep", "healthy", "timedout" or "raised"
    r_elapsed,     \* time.time() - start_time, in seconds
    r_polls,       \* number of is_up calls made
    r_cmds,        \* history: the commands sent to the host, in order
    r_error,       \* the exception that left restart, or "none"
    r_service,     \* the cassandra service of the host: "running" or "stopped"
    r_prior,       \* history: the state of the service when restart was called
    r_firstTrueAt, \* history: the first poll whose health check was true, or 0
    r_sleeps,      \* history: number of time.sleep calls that have ended
    r_lastPoll     \* history: the value of r_elapsed when the last poll was sent

restartVars ==
    << r_pc, r_elapsed, r_polls, r_cmds, r_error, r_service, r_prior, r_firstTrueAt,
       r_sleeps, r_lastPoll >>

VARIABLES
    h_pc,         \* where Cluster.is_up is: "idle", "sweep", "returned" or "raised"
    h_sweep,      \* which of the two all([...]) of Cluster.is_up is being built
    h_reports,    \* per all([...]), the answers of node.is_up so far, in node order
    h_logged,     \* the value logged as "All nodes are up", or "unset"
    h_result      \* the value Cluster.is_up returned, or "unset"

healthVars == << h_pc, h_sweep, h_reports, h_logged, h_result >>

VARIABLES
    n_pc,         \* where the Node call is: "idle", "awaiting", "listing",
                  \* "stopping", "discarded", "returned" or "raised"
    n_op,         \* the method called
    n_async,      \* its async_ argument
    n_i,          \* the node the call is made on (Cluster loops over the nodes)
    n_out,        \* the pair (stdout, stderr) the last listing command returned
    n_found,      \* stop_table_compactions: the list being iterated (a local)
    n_k,          \* stop_table_compactions: index of the compaction being stopped
    n_discovered, \* history: the compactions found, with the node they were found on
    n_cmds,       \* history: the commands that were run on the hosts, in order
    n_result,     \* the list returned
    n_error       \* the exception that left the call, or "none"

nodeVars ==
    << n_pc, n_op, n_async, n_i, n_out, n_found, n_k, n_discovered, n_cmds, n_result, n_error >>

VARIABLES
    p_line,       \* the line handed to the parser, as the sequence of its tokens
    p_which,      \* the parser applied to it: "compaction", "snapshot" or "none"
    p_count,      \* how many times the line was parsed
    p_first,      \* what the first parse of the line returned
    p_result      \* what the last parse of the line returned

parseVars == << p_line, p_which, p_count, p_first, p_result >>

VARIABLES
    cr_pc,        \* where Cluster.restart is: "idle", "running", "returned", "raised"
    cr_i,         \* the node whose restart is running
    cr_done       \* history: the nodes whose restart has ended, and how it ended

rollingVars == << cr_pc, cr_i, cr_done >>

VARIABLES
    s_pc,         \* where remove_geomesa_schema is: "idle", "identify", "describe",
                  \* "remove", "done" or "raised"
    s_tables,     \* geomesa_tables: the tables identified for the schema
    s_results,    \* what the DESCRIBE of each table gave, in table order
    s_k,          \* index of the table being removed
    s_cmds        \* history: the removal calls made, in order

schemaVars == << s_pc, s_tables, s_results, s_k, s_cmds >>

VARIABLES
    d_pc,         \* where the script of node.py is: "idle", "first", "restarting",
                  \* "chain", "calling", "done" or "raised"
    d_command,    \* args.command
    d_args,       \* which of the optional arguments were given
    d_calls,      \* history: the methods of node the script has called, in order
    d_error       \* the exception that ended the script, or "none"

dispatchVars == << d_pc, d_command, d_args, d_calls, d_error >>

VARIABLES
    sn_pc,        \* where clear_table_snapshots is: "idle", "start", "listing",
                  \* "clearing", "done" or "raised"
    sn_store,     \* per host, the snapshots the host holds
    sn_before,    \* history: sn_store when clear_table_snapshots was called
    sn_targets,   \* the snapshots find_table_snapshots returned
    sn_left       \* indices of the clearsnapshot commands that have not ended

snapVars == << sn_pc, sn_store, sn_before, sn_targets, sn_left >>

moreVars == << dispatchVars, snapVars >>

otherVars == << parseVars, rollingVars, schemaVars, moreVars >>

(***************************************************************************)
(* The event loop: run_command tasks and asyncio.gather.                   *)
(***************************************************************************)
\* get_remote_ips: the hosts of remotes.json, in file order.
get_remote_ips == [i \in 1..NumNodes |-> i]

NewTask(g, phase, n, arg) ==
    [gid |-> g, phase |-> phase, node |-> n, arg |-> arg, st |-> "created",
     raw |-> NoResult, res |-> NoResult, connected |-> FALSE]

\* One target per host of the list, all with the same command.
EveryNode(nodes) == [i \in 1..Len(nodes) |-> [node |-> nodes[i], arg |-> ""]]

\* Tasks that are still scheduled on the loop.
Pending(ts) == SelectSeq(ts, LAMBDA t : t.st # "done")

\* The tasks of the gather call that is being waited for, in argument order.
Children == SelectSeq(tasks, LAMBDA t : t.gid = gid)

\* Variant of GatherDone: the wait ends with the first task that ends.
GatherDoneFirstCompleted(ts, return_exceptions) ==
    \/ Len(ts) = 0
    \/ \E i \in 1..Len(ts) : ts[i].st = "done"

\* run_until_complete(gather(*tasks, return_exceptions)) stops waiting when every
\* task is done, or, without return_exceptions, as soon as one task has raised.
GatherDone(ts, return_exceptions) ==
    \/ \A i \in 1..Len(ts) : ts[i].st = "done"
    \/ /\ ~return_exceptions
       /\ \E i \in 1..Len(ts) : ts[i].st = "done" /\ ts[i].res.kind = "exc"

\* Without return_exceptions the first exception is raised to the caller.
GatherRaises(ts, return_exceptions) ==
    /\ ~return_exceptions
    /\ \E i \in 1..Len(ts) : ts[i].st = "done" /\ ts[i].res.kind = "exc"

\* The list gather returns: one entry per awaitable, in argument order.
GatherResults(ts) == [i \in 1..Len(ts) |-> ts[i].res]

\* run_command is called with raise_error=True by stop_compaction only.
raise_error(phase) == phase = "stop_compaction"

\* run_command's ending, given what connection.run returned or raised.
run_command(r, raiseError) ==
    IF r.kind = "result" /\ r.stderr /\ raiseError THEN Exc(r.node) ELSE r

\* Create the run_command coroutines of a phase and hand them to gather.
Dispatch(phase, targets) ==
    /\ gid' = gid + 1
    /\ tasks' = Pending(tasks) \o
                [k \in 1..Len(targets) |-> NewTask(gid + 1, phase, targets[k].node, targets[k].arg)]
    /\ dispatched' = [dispatched EXCEPT
                        ![phase] = @ \o [k \in 1..Len(targets) |-> targets[k].node]]

\* Variant of Release: the connection is closed when the block returns, and
\* left open when an exception leaves it.
ReleaseOnReturnOnly(r) == r.kind = "exc"

\* "async with asyncssh.connect(...) as connection": is the connection still
\* open once the block has been left with r, a result returned or an exception
\* raised?  The context manager closes it on every way out.
Release(r) == FALSE

\* asyncssh.connect of a task: the session opens, or the connection fails.
TaskConnect(i) ==
    /\ pc \in Phases \/ cl_pc = "gathering"
    /\ tasks[i].st = "created"
    /\ \/ /\ tasks' = [tasks EXCEPT ![i].st = "running", ![i].connected = TRUE]
          /\ UNCHANGED failedSteps
       \/ /\ tasks' = [tasks EXCEPT ![i].st = "done", ![i].raw = Exc(tasks[i].node),
                                     ![i].res = Exc(tasks[i].node)]
          /\ failedSteps' = failedSteps \cup { tasks[i].phase }
    /\ UNCHANGED << pc, gid, compactions, ci, dispatched, raisedIn, clusterVars, restartVars, healthVars, nodeVars, otherVars >>

\* connection.run of a task ends and run_command returns or raises.
TaskFinish(i) ==
    /\ pc \in Phases \/ cl_pc = "gathering"
    /\ tasks[i].st = "running"
    /\ \E r \in Outcomes(tasks[i].phase, tasks[i].node) :
          LET res == run_command(r, raise_error(tasks[i].phase))
          IN /\ tasks' = [tasks EXCEPT ![i].st = "done", ![i].raw = r, ![i].res = res,
                                        ![i].connected = Release(res)]
             /\ failedSteps' = IF Failed(res) THEN failedSteps \cup { tasks[i].phase }
                               ELSE failedSteps
    /\ UNCHANGED << pc, gid, compactions, ci, dispatched, raisedIn, clusterVars, restartVars, healthVars, nodeVars, otherVars >>

(***************************************************************************)
(* remove_table (geomesa_cassandra.py).                                    *)
(***************************************************************************)
\* Variant of seed_node: truncate is handed every host of the list.
seed_node_every(nodes) == EveryNode(nodes)

\* The host truncate_table is called with: seed_node = nodes[0].
seed_node(nodes) == << [node |-> nodes[1], arg |-> ""] >>

\* Variant of stop_compaction: the command is sent to the seed node.
stop_compaction_on_seed(c) == << [node |-> get_remote_ips[1], arg |-> c.compaction_id] >>

\* stop_compaction(compaction['node'], compaction['compaction_id'])
stop_compaction(c) == << [node |-> c.node, arg |-> c.compaction_id] >>

\* One clearsnapshot command per snapshot found, on the snapshot's host.
clear_targets(snaps) == [k \in 1..Len(snaps) |-> [node |-> snaps[k].node, arg |-> snaps[k].name]]

\* An exception leaves remove_table: nothing after the raising call runs.
Raise ==
    /\ pc' = "raised"
    /\ raisedIn' = pc
    /\ UNCHANGED << tasks, gid, dispatched >>

\* remove_table, up to the gather of flush_table.
remove_table ==
    /\ UNCHANGED << clusterVars, restartVars, healthVars, nodeVars, otherVars >>
    /\ pc = "start" /\ cl_pc = "idle"
    /\ pc' = "flush"
    /\ Dispatch("flush", EveryNode(get_remote_ips))
    /\ UNCHANGED << compactions, ci, failedSteps, raisedIn >>

\* flush_table returns; stop_compations_of_table starts get_compaction_stats.
flush_table ==
    /\ UNCHANGED << clusterVars, restartVars, healthVars, nodeVars, otherVars >>
    /\ pc = "flush"
    /\ GatherDone(Children, TRUE)
    /\ pc' = "compactionstats"
    /\ Dispatch("compactionstats", EveryNode(get_remote_ips))
    /\ UNCHANGED << compactions, ci, failedSteps, raisedIn >>

\* get_compaction_stats returns; find_table_compactions reads the results in
\* order and the loop of stop_compations_of_table starts.
get_compaction_stats ==
    /\ UNCHANGED << clusterVars, restartVars, healthVars, nodeVars, otherVars >>
    /\ pc = "compactionstats"
    /\ GatherDone(Children, TRUE)
    /\ LET rs == GatherResults(Children)
           found == find_table_compactions(rs, get_remote_ips, 1, Keyspace, Table)
       IN IF \E k \in 1..Len(rs) : get_output_or_raise_raises(rs[k])
             THEN Raise /\ UNCHANGED << compactions, ci >>
             ELSE /\ raisedIn' = raisedIn
                  /\ IF found = << >>
                     THEN /\ pc' = "truncate"
                          /\ UNCHANGED << compactions, ci >>
                          /\ Dispatch("truncate", seed_node(get_remote_ips))
                     ELSE /\ pc' = "stop_compaction"
                          /\ compactions' = found
                          /\ ci' = 1
                          /\ Dispatch("stop_compaction", stop_compaction(found[1]))
    /\ UNCHANGED failedSteps

\* One stop_compaction returns or raises; the loop goes on, then truncate_table.
stop_compations_of_table ==
    /\ UNCHANGED << clusterVars, restartVars, healthVars, nodeVars, otherVars >>
    /\ pc = "stop_compaction"
    /\ GatherDone(Children, FALSE)
    /\ IF GatherRaises(Children, FALSE)
       THEN Raise /\ UNCHANGED << compactions, ci >>
       ELSE /\ raisedIn' = raisedIn
            /\ IF ci < Len(compactions)
               THEN /\ pc' = "stop_compaction"
                    /\ ci' = ci + 1
                    /\ UNCHANGED compactions
                    /\ Dispatch("stop_compaction", stop_compaction(compactions[ci + 1]))
               ELSE /\ pc' = "truncate"
                    /\ compactions' = << >>
                    /\ ci' = 0
                    /\ Dispatch("truncate", seed_node(get_remote_ips))
    /\ UNCHANGED failedSteps

\* truncate_table returns; clear_table_snapshots starts list_snapshots.
truncate_table ==
    /\ UNCHANGED << clusterVars, restartVars, healthVars, nodeVars, otherVars >>
    /\ pc = "truncate"
    /\ GatherDone(Children, TRUE)
    /\ pc' = "listsnapshots"
    /\ Dispatch("listsnapshots", EveryNode(get_remote_ips))
    /\ UNCHANGED << compactions, ci, failedSteps, raisedIn >>

\* list_snapshots returns; find_table_snapshots reads the results in order and
\* clear_table_snapshots gathers one clearsnapshot per snapshot found.
list_snapshots ==
    /\ UNCHANGED << clusterVars, restartVars, healthVars, nodeVars, otherVars >>
    /\ pc = "listsnapshots"
    /\ GatherDone(Children, TRUE)
    /\ LET rs == GatherResults(Children)
           found == find_table_snapshots(rs, get_remote_ips, 1, Keyspace, Table)
       IN IF \E k \in 1..Len(rs) : get_output_or_raise_raises(rs[k])
             THEN Raise
             ELSE /\ raisedIn' = raisedIn
                  /\ pc' = "clearsnapshot"
                  /\ Dispatch("clearsnapshot", clear_targets(found))
    /\ UNCHANGED << compactions, ci, failedSteps >>

\* clear_table_snapshots returns; repair_table starts.
clear_table_snapshots ==
    /\ UNCHANGED << clusterVars, restartVars, healthVars, nodeVars, otherVars >>
    /\ pc = "clearsnapshot"
    /\ GatherDone(Children, TRUE)
    /\ pc' = "repair"
    /\ Dispatch("repair", EveryNode(get_remote_ips))
    /\ UNCHANGED << compactions, ci, failedSteps, raisedIn >>

\* repair_table returns; cleanup_table starts.
repair_table ==
    /\ UNCHANGED << clusterVars, restartVars, healthVars, nodeVars, otherVars >>
    /\ pc = "repair"
    /\ GatherDone(Children, TRUE)
    /\ pc' = "cleanup"
    /\ Dispatch("cleanup", EveryNode(get_remote_ips))
    /\ UNCHANGED << compactions, ci, failedSteps, raisedIn >>

\* cleanup_table returns; compact_table starts.
cleanup_table ==
    /\ UNCHANGED << clusterVars, restartVars, healthVars, nodeVars, otherVars >>
    /\ pc = "cleanup"
    /\ GatherDone(Children, TRUE)
    /\ pc' = "compact"
    /\ Dispatch("compact", EveryNode(get_remote_ips))
    /\ UNCHANGED << compactions, ci, failedSteps, raisedIn >>

\* compact_table returns and remove_table ends.
compact_table ==
    /\ UNCHANGED << clusterVars, restartVars, healthVars, nodeVars, otherVars >>
    /\ pc = "compact"
    /\ GatherDone(Children, TRUE)
    /\ pc' = "done"
    /\ tasks' = Pending(tasks)
    /\ UNCHANGED << gid, compactions, ci, failedSteps, dispatched, raisedIn >>

(***************************************************************************)
(* Cluster (cluster.py) over Node and Remote (node.py, remote.py).         *)
(***************************************************************************)
\* The methods class Remote defines.
RemoteMethods == { "async_run_command", "run" }

\* The methods class Node adds to Remote.
NodeMethods ==
    { "info", "status", "is_up", "restart", "start", "stop", "flush_table",
      "compactionstats", "find_table_compactions", "async_find_table_compactions",
      "stop_table_compactions", "stop_compaction", "_parse_compaction_output",
      "listsnapshots", "clear_table_snapshots", "find_table_snapshots",
      "async_find_table_snapshots", "_parse_snapshot", "repair_table",
      "cleanup_table", "compact_table", "cqlsh", "_run" }

\* Attribute lookup on a Node instance.
HasAttr(name) == name \in RemoteMethods \cup NodeMethods

\* Node._run(command, async_): what evaluating the call does.
\*   "coroutine"      : self.async_run(command) gives an awaitable
\*   "AttributeError" : the lookup of self.async_run fails
\*   "run"            : self.run(command) blocks until the command has ended
Node_run(async_) ==
    IF async_
    THEN IF HasAttr("async_run") THEN "coroutine" ELSE "AttributeError"
    ELSE "run"

\* The Cluster methods that hand one Node call per node to Cluster._run.
ClusterOps == { "info", "flush_table", "compactionstats", "listsnapshots",
                "repair_table", "cleanup_table", "compact_table" }

\* The async_ argument each of them passes to the Node method.
async_(op) == op # "repair_table"

\* The Cluster methods that hand one async_find_table_... coroutine per node to
\* Cluster._run and flatten the lists it returns.
ClusterFindOps == { "find_table_compactions", "find_table_snapshots" }

\* What evaluating the Node call of a Cluster method gives, for one node:
\*   "coroutine"      : an awaitable (of Remote, or of an async def of Node)
\*   "generator"      : the generator Node.clear_table_snapshots returns
\*   "AttributeError" : an attribute lookup fails while the call is evaluated
\*   "run"            : the call blocks until the command has ended
NodeCallValue(op) ==
    CASE op \in ClusterFindOps ->
              "coroutine"
      [] op = "clear_table_snapshots" ->
              IF HasAttr("_find_table_snapshots") THEN "generator" ELSE "AttributeError"
      [] OTHER ->
              Node_run(async_(op))

\* The list the comprehension of a find method builds from the lists of the
\* nodes, in node order.
RECURSIVE Flatten(_, _, _)
Flatten(op, rs, k) ==
    IF k > Len(rs) THEN << >>
    ELSE (IF op = "find_table_compactions"
          THEN Node_find_table_compactions(<< rs[k].stdout, NoLines >>, Keyspace, Table)
          ELSE Node_find_table_snapshots(<< rs[k].stdout, NoLines >>, Keyspace, Table))
         \o Flatten(op, rs, k + 1)

\* The generator moves on to the next node, or is exhausted.
NextItem ==
    IF cl_i < NumNodes
    THEN cl_pc' = "unpack" /\ cl_i' = cl_i + 1
    ELSE cl_pc' = "gather" /\ cl_i' = cl_i

\* A Cluster method is called; Cluster._run starts unpacking its generator.
ClusterCall(op) ==
    /\ pc = "start" /\ cl_pc = "idle"
    /\ cl_pc' = "unpack"
    /\ cl_op' = op
    /\ cl_i' = 1
    /\ UNCHANGED << cl_items, cl_results, cl_error, cl_finished, cl_raised, cl_connected >>
    /\ UNCHANGED << pipelineVars, restartVars, healthVars, nodeVars, otherVars >>

\* Cluster._run, gather(*tasks, ...): the generator evaluates the Node call of
\* node cl_i, which evaluates Node._run.
Cluster_run_unpack ==
    /\ cl_pc = "unpack"
    /\ LET how == NodeCallValue(cl_op)
       IN CASE how = "AttributeError" ->
                 /\ cl_pc' = "raised"
                 /\ cl_error' = "AttributeError"
                 /\ UNCHANGED << cl_i, cl_items >>
            [] how \in { "coroutine", "generator" } ->
                 /\ cl_items' = Append(cl_items, [kind |-> how, node |-> cl_i])
                 /\ NextItem
                 /\ UNCHANGED cl_error
            [] how = "run" ->
                 /\ cl_pc' = "connecting"
                 /\ UNCHANGED << cl_i, cl_items, cl_error >>
    /\ UNCHANGED << cl_op, cl_results, cl_finished, cl_raised, cl_connected >>
    /\ UNCHANGED << pipelineVars, restartVars, healthVars, nodeVars, otherVars >>

\* Remote.run, blocking: asyncssh.connect opens the session or fails.
Remote_run_connect ==
    /\ cl_pc = "connecting"
    /\ \/ /\ cl_pc' = "running"
          /\ cl_connected' = TRUE
          /\ UNCHANGED << cl_error, cl_raised >>
       \/ /\ cl_pc' = "raised"
          /\ cl_error' = "ConnectError"
          /\ cl_raised' = cl_raised \cup { cl_i }
          /\ UNCHANGED cl_connected
    /\ UNCHANGED << cl_op, cl_i, cl_items, cl_results, cl_finished, pipelineVars, restartVars, healthVars, nodeVars, otherVars >>

\* Remote.run, blocking: the command ends; async_run_command returns the pair
\* (stdout, stderr), or the transport failed and the exception is raised.
Remote_run_finish ==
    /\ cl_pc = "running"
    /\ \/ /\ \E se \in BOOLEAN :
                cl_items' = Append(cl_items, [kind |-> "tuple", node |-> cl_i, stderr |-> se])
          /\ cl_finished' = cl_finished \cup { cl_i }
          /\ cl_connected' = Release(Res(cl_i, NoLines, FALSE, 0))
          /\ NextItem
          /\ UNCHANGED << cl_error, cl_raised >>
       \/ /\ cl_pc' = "raised"
          /\ cl_error' = "TransportError"
          /\ cl_raised' = cl_raised \cup { cl_i }
          /\ cl_connected' = Release(Exc(cl_i))
          /\ UNCHANGED << cl_i, cl_items, cl_finished >>
    /\ UNCHANGED << cl_op, cl_results, pipelineVars, restartVars, healthVars, nodeVars, otherVars >>

\* A coroutine of async_find_table_compactions or async_find_table_snapshots
\* starts: its first statement evaluates the listing method with async_=True,
\* whose awaitable is then awaited, or whose exception ends the coroutine.
async_find_table ==
    /\ cl_pc = "gathering"
    /\ \E i \in 1..Len(tasks) :
          /\ tasks[i].st = "coro"
          /\ tasks' = IF Node_run(TRUE) = "AttributeError"
                      THEN [tasks EXCEPT ![i].st = "done", ![i].raw = Exc(tasks[i].node),
                                         ![i].res = Exc(tasks[i].node)]
                      ELSE [tasks EXCEPT ![i].st = "created"]
    /\ UNCHANGED << cl_pc, cl_op, cl_i, cl_items, cl_results, cl_error, cl_finished, cl_raised,
                    cl_connected >>
    /\ UNCHANGED << pc, gid, compactions, ci, failedSteps, dispatched, raisedIn >>
    /\ UNCHANGED << restartVars, healthVars, nodeVars, otherVars >>

\* Cluster._run: gather is called with the unpacked items and waited for;
\* gather refuses an argument that is not awaitable.  When it returns, a find
\* method iterates over each member of the list to flatten it: a member that
\* is an exception is not iterable.
Cluster_run ==
    /\ cl_pc \in { "gather", "gathering" }
    /\ IF cl_pc = "gather"
       THEN IF \E k \in 1..Len(cl_items) : cl_items[k].kind # "coroutine"
            THEN /\ cl_pc' = "raised"
                 /\ cl_error' = "TypeError"
                 /\ UNCHANGED << cl_results, tasks, gid >>
            ELSE /\ cl_pc' = "gathering"
                 /\ gid' = gid + 1
                 /\ tasks' = [k \in 1..Len(cl_items) |->
                                [NewTask(gid + 1, cl_op, cl_items[k].node, "") EXCEPT
                                    !.st = IF cl_op \in ClusterFindOps THEN "coro" ELSE "created"]]
                 /\ UNCHANGED << cl_results, cl_error >>
       ELSE /\ GatherDone(Children, TRUE)
            /\ LET rs == GatherResults(Children)
               IN IF cl_op \notin ClusterFindOps
                  THEN /\ cl_pc' = "returned"
                       /\ cl_results' = rs
                       /\ UNCHANGED cl_error
                  ELSE IF \E k \in 1..Len(rs) : rs[k].kind = "exc"
                       THEN /\ cl_pc' = "raised"
                            /\ cl_error' = "TypeError"
                            /\ UNCHANGED cl_results
                       ELSE /\ cl_pc' = "returned"
                            /\ cl_results' = Flatten(cl_op, rs, 1)
                            /\ UNCHANGED cl_error
            /\ UNCHANGED << tasks, gid >>
    /\ UNCHANGED << cl_op, cl_i, cl_items, cl_finished, cl_raised, cl_connected >>
    /\ UNCHANGED << pc, compactions, ci, failedSteps, dispatched, raisedIn, restartVars, healthVars, nodeVars, otherVars >>

ClusterInit ==
    /\ cl_pc = "idle"
    /\ cl_op = "none"
    /\ cl_i = 0
    /\ cl_items = << >>
    /\ cl_results = << >>
    /\ cl_error = "none"
    /\ cl_finished = {}
    /\ cl_raised = {}
    /\ cl_connected = FALSE

ClusterNext ==
    \/ \E op \in ClusterOps \cup ClusterFindOps \cup { "clear_table_snapshots" } : ClusterCall(op)
    \/ Cluster_run_unpack
    \/ async_find_table
    \/ Remote_run_connect
    \/ Remote_run_finish
    \/ Cluster_run

(***************************************************************************)
(* Node.restart (node.py): stop, start, then poll is_up until it is true   *)
(* or 300 seconds have passed.  Time is counted in whole seconds.          *)
(***************************************************************************)
\* The bound of the polling loop: while time.time() - start_time < 300.
RESTART_TIMEOUT == 300

\* time.sleep(2) between two polls.
POLL_INTERVAL == 2

\* Longest time one "nodetool info" round trip takes (a bound of the model).
MaxPollTime == 1

\* Variant of stop: it sends the command of start.
stop_sends_start == "sudo systemctl start cassandra"

\* Node.stop and Node.start: the command each sends.
stop == "sudo systemctl stop cassandra"

start == "sudo systemctl start cassandra"

\* Node.info: the command is_up sends.
info == "nodetool info"

\* Output texts of "nodetool info" a host may produce, as the sequence of the
\* words of the text that the pattern of is_up mentions, plus other words.
InfoOutputs ==
    { <<"Gossip", "true", "Thrift", "true", "Transport", "true">>,
      <<"Gossip", "true", "Thrift", "false", "Transport", "true">>,
      <<"Gossip", "false", "Thrift", "false", "Transport", "false">>,
      <<"Gossip", "true", "Thrift", "true", "Transport", "false", "Cache", "true">>,
      << >> }

\* The pattern of is_up: the six words in this order, anything in between.
IsUpPattern == <<"Gossip", "true", "Thrift", "true", "Transport", "true">>

\* re.search of a pattern of words separated by [\w\s\S]*.
RECURSIVE Search(_, _)
Search(pattern, text) ==
    IF pattern = << >> THEN TRUE
    ELSE IF text = << >> THEN FALSE
    ELSE IF Head(text) = Head(pattern) THEN Search(Tail(pattern), Tail(text))
    ELSE Search(pattern, Tail(text))

\* Node.is_up on the stdout of "nodetool info".
is_up(stdout) == Search(IsUpPattern, stdout)

\* Variant of LoopCond: the loop is left when the next sleep would pass the bound.
LoopCondEarly(elapsed) == elapsed + POLL_INTERVAL < RESTART_TIMEOUT

\* Variant of LoopCond: a poll is still made when the timeout is just reached.
LoopCondInclusive(elapsed) == elapsed <= RESTART_TIMEOUT

\* The condition of the while loop of restart.
LoopCond(elapsed) == elapsed < RESTART_TIMEOUT

\* Variant of AfterPoll: the test of is_up is inverted.
AfterPollInverted(up) == IF ~up THEN "healthy" ELSE "sleep"

\* Variant of AfterPoll: the loop goes on without sleeping.
AfterPollNoSleep(up) == IF up THEN "healthy" ELSE "loop"

\* The body of the loop after the poll: return True, or sleep and loop.
AfterPoll(up) == IF up THEN "healthy" ELSE "sleep"

\* Node.restart is called: self.stop() sends the stop command.
restart ==
    /\ r_pc = "idle"
    /\ r_pc' = "stop"
    /\ r_cmds' = Append(r_cmds, stop)
    /\ UNCHANGED << r_elapsed, r_polls, r_error, r_service, r_prior, r_firstTrueAt,
                    r_sleeps, r_lastPoll >>
    /\ UNCHANGED << pipelineVars, clusterVars, healthVars, nodeVars, otherVars >>

\* The stop command ends (Remote.run returns its output whatever it is) and
\* self.start() sends the start command; or the session failed and run raises.
restart_stop ==
    /\ r_pc = "stop"
    /\ \/ /\ r_pc' = "start"
          /\ r_service' = "stopped"
          /\ r_cmds' = Append(r_cmds, start)
          /\ UNCHANGED r_error
       \/ /\ r_pc' = "raised"
          /\ r_error' = "ConnectError"
          /\ UNCHANGED << r_service, r_cmds >>
    /\ UNCHANGED << r_elapsed, r_polls, r_prior, r_firstTrueAt, r_sleeps, r_lastPoll >>
    /\ UNCHANGED << pipelineVars, clusterVars, healthVars, nodeVars, otherVars >>

\* The start command ends and start_time is taken; or run raises.
restart_start ==
    /\ r_pc = "start"
    /\ \/ /\ r_pc' = "loop"
          /\ r_service' = "running"
          /\ r_elapsed' = 0
          /\ UNCHANGED r_error
       \/ /\ r_pc' = "raised"
          /\ r_error' = "ConnectError"
          /\ UNCHANGED << r_service, r_elapsed >>
    /\ UNCHANGED << r_polls, r_cmds, r_prior, r_firstTrueAt, r_sleeps, r_lastPoll >>
    /\ UNCHANGED << pipelineVars, clusterVars, healthVars, nodeVars, otherVars >>

\* The loop condition is evaluated: is_up sends "nodetool info", or the loop
\* is left and TimeoutError is raised.
restart_loop ==
    /\ r_pc = "loop"
    /\ IF LoopCond(r_elapsed)
       THEN /\ r_pc' = "poll"
            /\ r_polls' = r_polls + 1
            /\ r_cmds' = Append(r_cmds, info)
            /\ r_lastPoll' = r_elapsed
            /\ UNCHANGED r_error
       ELSE /\ r_pc' = "timedout"
            /\ r_error' = "TimeoutError"
            /\ UNCHANGED << r_polls, r_cmds, r_lastPoll >>
    /\ UNCHANGED << r_elapsed, r_service, r_prior, r_firstTrueAt, r_sleeps >>
    /\ UNCHANGED << pipelineVars, clusterVars, healthVars, nodeVars, otherVars >>

\* "nodetool info" ends after some time and is_up searches its output; or the
\* session failed and the exception leaves is_up and restart.
restart_poll ==
    /\ r_pc = "poll"
    /\ \E d \in 0..MaxPollTime :
          /\ r_elapsed' = r_elapsed + d
          /\ \/ \E out \in InfoOutputs :
                   /\ r_pc' = AfterPoll(is_up(out))
                   /\ r_firstTrueAt' = IF is_up(out) /\ r_firstTrueAt = 0
                                       THEN r_polls ELSE r_firstTrueAt
                   /\ UNCHANGED r_error
             \/ /\ r_pc' = "raised"
                /\ r_error' = "ConnectError"
                /\ UNCHANGED r_firstTrueAt
    /\ UNCHANGED << r_polls, r_cmds, r_service, r_prior, r_sleeps, r_lastPoll >>
    /\ UNCHANGED << pipelineVars, clusterVars, healthVars, nodeVars, otherVars >>

\* time.sleep(2) ends.
restart_sleep ==
    /\ r_pc = "sleep"
    /\ r_pc' = "loop"
    /\ r_elapsed' = r_elapsed + POLL_INTERVAL
    /\ r_sleeps' = r_sleeps + 1
    /\ UNCHANGED << r_polls, r_cmds, r_error, r_service, r_prior, r_firstTrueAt, r_lastPoll >>
    /\ UNCHANGED << pipelineVars, clusterVars, healthVars, nodeVars, otherVars >>

\* No restart is running.
RestartIdle ==
    /\ r_pc = "idle"
    /\ r_elapsed = 0
    /\ r_polls = 0
    /\ r_cmds = << >>
    /\ r_error = "none"
    /\ r_service = "running"
    /\ r_prior = "running"
    /\ r_firstTrueAt = 0
    /\ r_sleeps = 0
    /\ r_lastPoll = 0

\* restart is about to be called on a host whose service runs or not.
RestartInit ==
    /\ r_pc = "idle"
    /\ r_elapsed = 0
    /\ r_polls = 0
    /\ r_cmds = << >>
    /\ r_error = "none"
    /\ r_service \in { "running", "stopped" }
    /\ r_prior = r_service
    /\ r_firstTrueAt = 0
    /\ r_sleeps = 0
    /\ r_lastPoll = 0

RestartNext ==
    \/ restart
    \/ restart_stop
    \/ restart_start
    \/ restart_loop
    \/ restart_poll
    \/ restart_sleep

(***************************************************************************)
(* The Node methods that list and act on compactions and snapshots         *)
(* (node.py), and Cluster.stop_table_compactions, which loops over them.   *)
(***************************************************************************)
NodeOps == { "find_table_compactions", "find_table_snapshots",
             "stop_table_compactions", "clear_table_snapshots" }

\* The listing command of a method, and the outputs it may give.
ListingCommand(op) ==
    IF op \in { "find_table_snapshots", "clear_table_snapshots" }
    THEN "nodetool listsnapshots" ELSE "nodetool compactionstats"

\* A compactionstats output with two compactions of the table.
TwoCompactions ==
    << <<"c1", "COMPACTION", "ks1", "tbl1">>, <<"c3", "COMPACTION", "ks1", "tbl1">> >>

ListingOutputs(op) ==
    IF op \in { "find_table_snapshots", "clear_table_snapshots" }
    THEN SnapshotOutputs ELSE CompactionOutputs \cup { TwoCompactions }

\* A Node method is called on the Node object of host n.
NodeCall(op, a, n) ==
    /\ n_pc = "idle"
    /\ n_op' = op
    /\ n_async' = a
    /\ n_i' = n
    /\ CASE op = "clear_table_snapshots" ->
              IF HasAttr("_find_table_snapshots")
              THEN n_pc' = "listing" /\ UNCHANGED n_error
              ELSE n_pc' = "raised" /\ n_error' = "AttributeError"
         [] op \in { "find_table_compactions", "find_table_snapshots" } /\ a ->
              n_pc' = "awaiting" /\ UNCHANGED n_error
         [] OTHER ->
              n_pc' = "listing" /\ UNCHANGED n_error
    /\ UNCHANGED << n_out, n_found, n_k, n_discovered, n_cmds, n_result >>
    /\ UNCHANGED << pipelineVars, clusterVars, restartVars, healthVars, otherVars >>

\* Cluster.stop_table_compactions: node.stop_table_compactions(keyspace, table,
\* async_=True) for each node of the list, one after the other.
Cluster_stop_table_compactions ==
    /\ n_pc = "idle"
    /\ n_op' = "Cluster.stop_table_compactions"
    /\ n_async' = TRUE
    /\ n_i' = 1
    /\ n_pc' = "listing"
    /\ UNCHANGED << n_out, n_found, n_k, n_discovered, n_cmds, n_result, n_error >>
    /\ UNCHANGED << pipelineVars, clusterVars, restartVars, healthVars, otherVars >>

\* The coroutine of async_find_table_compactions or async_find_table_snapshots
\* is awaited: its first statement evaluates the listing with async_=True.
Node_await ==
    /\ n_pc = "awaiting"
    /\ IF Node_run(TRUE) = "AttributeError"
       THEN n_pc' = "raised" /\ n_error' = "AttributeError"
       ELSE n_pc' = "listing" /\ UNCHANGED n_error
    /\ UNCHANGED << n_op, n_async, n_i, n_out, n_found, n_k, n_discovered, n_cmds, n_result >>
    /\ UNCHANGED << pipelineVars, clusterVars, restartVars, healthVars, otherVars >>

\* stop_table_compactions is done with node n_i.
EndOfNode ==
    IF n_op = "Cluster.stop_table_compactions" /\ n_i < NumNodes
    THEN n_pc' = "listing" /\ n_i' = n_i + 1
    ELSE n_pc' = "returned" /\ n_i' = n_i

\* self.stop_compaction(compaction_id, async_) is evaluated for the k-th id.
StopNext(k) ==
    /\ n_k' = k
    /\ n_i' = n_i
    /\ LET how == Node_run(n_async)
       IN CASE how = "AttributeError" -> n_pc' = "raised" /\ n_error' = "AttributeError"
            [] how = "run"            -> n_pc' = "stopping" /\ UNCHANGED n_error
            [] how = "coroutine"      -> n_pc' = "discarded" /\ UNCHANGED n_error

\* The listing command of the method ends: Remote.run returns the pair
\* (stdout, stderr) whatever the exit status, or the session failed and the
\* exception leaves the method.  The method then goes through the output.
Node_listing ==
    /\ n_pc = "listing"
    /\ \/ /\ n_pc' = "raised"
          /\ n_error' = "ConnectError"
          /\ UNCHANGED << n_i, n_out, n_found, n_k, n_discovered, n_cmds, n_result >>
       \/ \E out \in ListingOutputs(n_op), err \in StderrOutputs :
             LET result == << out, err >>
                 found == Node_find_table_compactions(result, Keyspace, Table)
             IN /\ n_out' = result
                /\ n_cmds' = Append(n_cmds, [node |-> n_i, cmd |-> ListingCommand(n_op), arg |-> ""])
                /\ CASE n_op = "find_table_compactions" ->
                          /\ n_result' = found
                          /\ n_pc' = "returned"
                          /\ UNCHANGED << n_i, n_found, n_k, n_discovered, n_error >>
                     [] n_op \in { "find_table_snapshots", "clear_table_snapshots" } ->
                          /\ n_result' = Node_find_table_snapshots(result, Keyspace, Table)
                          /\ n_pc' = "returned"
                          /\ UNCHANGED << n_i, n_found, n_k, n_discovered, n_error >>
                     [] OTHER ->
                          /\ n_found' = found
                          /\ n_discovered' = n_discovered \o
                                [k \in 1..Len(found) |-> [node |-> n_i, id |-> found[k]]]
                          /\ UNCHANGED n_result
                          /\ IF found = << >>
                             THEN EndOfNode /\ UNCHANGED << n_k, n_error >>
                             ELSE StopNext(1)
    /\ UNCHANGED << n_op, n_async >>
    /\ UNCHANGED << pipelineVars, clusterVars, restartVars, healthVars, otherVars >>

\* A stop command ends (its output is not looked at), or its session failed;
\* a coroutine that was created is dropped without being awaited.  The loop
\* then goes to the next id.
Node_stop_compaction ==
    /\ n_pc \in { "stopping", "discarded" }
    /\ \/ /\ n_pc = "stopping"
          /\ n_pc' = "raised"
          /\ n_error' = "ConnectError"
          /\ UNCHANGED << n_i, n_k, n_cmds >>
       \/ /\ n_cmds' = IF n_pc = "stopping"
                       THEN Append(n_cmds, [node |-> n_i, cmd |-> "nodetool stop -id",
                                            arg |-> n_found[n_k]])
                       ELSE n_cmds
          /\ IF n_k < Len(n_found)
             THEN StopNext(n_k + 1)
             ELSE EndOfNode /\ UNCHANGED << n_k, n_error >>
    /\ UNCHANGED << n_op, n_async, n_out, n_found, n_discovered, n_result >>
    /\ UNCHANGED << pipelineVars, clusterVars, restartVars, healthVars, otherVars >>

NodeInit ==
    /\ n_pc = "idle"
    /\ n_op = "none"
    /\ n_async = FALSE
    /\ n_i = 0
    /\ n_out = << NoLines, NoLines >>
    /\ n_found = << >>
    /\ n_k = 0
    /\ n_discovered = << >>
    /\ n_cmds = << >>
    /\ n_result = << >>
    /\ n_error = "none"

NodeNext ==
    \/ \E op \in NodeOps, a \in BOOLEAN, n \in Nodes : NodeCall(op, a, n)
    \/ Cluster_stop_table_compactions
    \/ Node_await
    \/ Node_listing
    \/ Node_stop_compaction

(***************************************************************************)
(* Cluster.is_up (cluster.py) over Node.is_up (node.py).                   *)
(***************************************************************************)
\* Cluster.is_up evaluates all([node.is_up() for node in self._nodes]) twice:
\* once for the value it logs, once for the value it returns.
Evaluations == 2

\* Python's str(bool).
Bool(b) == IF b THEN "True" ELSE "False"

\* Variant of ListBuilt: the answers are consumed lazily and the first false
\* answer ends the evaluation.
ListBuiltLazily(rs) == Len(rs) = NumNodes \/ (rs # << >> /\ ~rs[Len(rs)].up)

\* The list comprehension is complete when every node has been asked.
ListBuilt(rs) == Len(rs) = NumNodes

\* all() of a list of answers.
all(rs) == \A k \in 1..Len(rs) : rs[k].up

\* Cluster.is_up is called.
Cluster_is_up ==
    /\ h_pc = "idle"
    /\ h_pc' = "sweep"
    /\ h_sweep' = 1
    /\ UNCHANGED << h_reports, h_logged, h_result >>
    /\ UNCHANGED << pipelineVars, clusterVars, restartVars, nodeVars, otherVars >>

\* node.is_up() of the next node of the list: "nodetool info" runs on it and
\* the pattern is searched in its output, or the session fails and the
\* exception leaves Cluster.is_up.  The answer that completes a list ends the
\* evaluation: the first value is logged, the second one is returned.
Node_is_up ==
    /\ h_pc = "sweep"
    /\ \/ \E out \in InfoOutputs :
             LET n == Len(h_reports[h_sweep]) + 1
                 rs == Append(h_reports[h_sweep], [node |-> n, out |-> out, up |-> is_up(out)])
             IN /\ h_reports' = [h_reports EXCEPT ![h_sweep] = rs]
                /\ IF ~ListBuilt(rs)
                   THEN UNCHANGED << h_pc, h_sweep, h_logged, h_result >>
                   ELSE IF h_sweep < Evaluations
                        THEN /\ h_logged' = Bool(all(rs))
                             /\ h_sweep' = h_sweep + 1
                             /\ UNCHANGED << h_pc, h_result >>
                        ELSE /\ h_result' = Bool(all(rs))
                             /\ h_pc' = "returned"
                             /\ UNCHANGED << h_sweep, h_logged >>
       \/ /\ h_pc' = "raised"
          /\ UNCHANGED << h_sweep, h_reports, h_logged, h_result >>
    /\ UNCHANGED << pipelineVars, clusterVars, restartVars, nodeVars, otherVars >>

HealthInit ==
    /\ h_pc = "idle"
    /\ h_sweep = 0
    /\ h_reports = [s \in 1..Evaluations |-> << >>]
    /\ h_logged = "unset"
    /\ h_result = "unset"

HealthNext ==
    \/ Cluster_is_up
    \/ Node_is_up

(***************************************************************************)
(* Cluster.restart (cluster.py): node.restart() for each node in turn.     *)
(***************************************************************************)
\* Variant of LoopContinues: an exception of node.restart is swallowed.
LoopContinuesAlways(rpc) == rpc \in { "healthy", "timedout", "raised" }

\* The for loop goes on to the next node when node.restart() has returned;
\* restart returns only True, from the poll that found the node healthy.
LoopContinues(rpc) == rpc = "healthy"

\* node.restart() of node cr_i has ended: the loop calls the restart of the
\* next node, or ends; an exception of node.restart leaves Cluster.restart.
Cluster_restart ==
    /\ cr_pc = "running"
    /\ r_pc \in { "healthy", "timedout", "raised" }
    /\ cr_done' = Append(cr_done, [node |-> cr_i, end |-> r_pc])
    /\ IF ~LoopContinues(r_pc)
       THEN /\ cr_pc' = "raised"
            /\ UNCHANGED << cr_i, restartVars >>
       ELSE IF cr_i = NumNodes
            THEN /\ cr_pc' = "returned"
                 /\ UNCHANGED << cr_i, restartVars >>
            ELSE /\ cr_i' = cr_i + 1
                 /\ UNCHANGED cr_pc
                 /\ r_pc' = "idle"
                 /\ r_elapsed' = 0
                 /\ r_polls' = 0
                 /\ r_cmds' = << >>
                 /\ r_error' = "none"
                 /\ r_service' \in { "running", "stopped" }
                 /\ r_prior' = r_service'
                 /\ r_firstTrueAt' = 0
                 /\ r_sleeps' = 0
                 /\ r_lastPoll' = 0
    /\ UNCHANGED << pipelineVars, clusterVars, healthVars, nodeVars, parseVars, schemaVars, moreVars >>

\* Cluster.restart is not running.
RollingInit ==
    /\ cr_pc = "idle"
    /\ cr_i = 0
    /\ cr_done = << >>

\* Cluster.restart has been called and is about to restart the first node.
RollingStart ==
    /\ cr_pc = "running"
    /\ cr_i = 1
    /\ cr_done = << >>

RollingNext ==
    \/ Cluster_restart
    \/ RestartNext

(***************************************************************************)
(* remove_geomesa_schema (geomesa_cassandra.py): identify the tables of    *)
(* the schema, check that they exist, then remove_table for each of them.  *)
(***************************************************************************)
\* The tables the catalog may name for the schema.
SchemaTables == { "cat_t1", "cat_t2", "cat_t3" }

\* The lists identify_schema_tables may return: any tables, in any order.
RECURSIVE TableLists(_)
TableLists(n) ==
    IF n = 0 THEN { << >> }
    ELSE { Append(l, t) : l \in TableLists(n - 1), t \in SchemaTables }

IdentifiedLists ==
    { l \in UNION { TableLists(n) : n \in 0..Cardinality(SchemaTables) } :
        \A i, j \in 1..Len(l) : i # j => l[i] # l[j] }

\* What the gather of tables_exist may hold for one DESCRIBE: the exception of
\* a command that raised, or a result with this text on stderr.
DescribeResults ==
    { [kind |-> "exc", stderr |-> ""],
      [kind |-> "result", stderr |-> ""],
      [kind |-> "result", stderr |-> "not found"],
      [kind |-> "result", stderr |-> "Connection error"] }

\* 'not found' in result.stderr
HasNotFound(stderr) == stderr = "not found"

\* The member of the list of tables_exist for one result.
table_exists(r) == r.stderr = "" \/ ~HasNotFound(r.stderr)

\* Variant of AllExist: one table that exists is enough.
AnyExists(results) == \E k \in 1..Len(results) : table_exists(results[k])

\* all(table_existence_states)
AllExist(results) == \A k \in 1..Len(results) : table_exists(results[k])

\* remove_geomesa_schema is called: the SELECT of identify_schema_tables is sent.
remove_geomesa_schema ==
    /\ s_pc = "idle"
    /\ s_pc' = "identify"
    /\ UNCHANGED << s_tables, s_results, s_k, s_cmds >>
    /\ UNCHANGED << pipelineVars, clusterVars, restartVars, healthVars, nodeVars, parseVars, rollingVars, moreVars >>

\* The SELECT ends.  Its gathered result is an exception, which has no stdout
\* (AttributeError), or its stdout names the tables and tables_exist sends one
\* DESCRIBE per table.
identify_schema_tables ==
    /\ s_pc = "identify"
    /\ \/ /\ s_pc' = "raised"
          /\ UNCHANGED s_tables
       \/ \E l \in IdentifiedLists :
             /\ s_tables' = l
             /\ s_pc' = "describe"
    /\ UNCHANGED << s_results, s_k, s_cmds >>
    /\ UNCHANGED << pipelineVars, clusterVars, restartVars, healthVars, nodeVars, parseVars, rollingVars, moreVars >>

\* The DESCRIBE commands have all ended.  An exception among the results has no
\* stderr (AttributeError); a table reported not found raises; otherwise
\* remove_table is called for the first table, if there is one.
tables_exist ==
    /\ s_pc = "describe"
    /\ \E rs \in [1..Len(s_tables) -> DescribeResults] :
          /\ s_results' = rs
          /\ IF \E k \in 1..Len(rs) : rs[k].kind = "exc"
             THEN s_pc' = "raised" /\ UNCHANGED << s_k, s_cmds >>
             ELSE IF ~AllExist(rs)
                  THEN s_pc' = "raised" /\ UNCHANGED << s_k, s_cmds >>
                  ELSE IF s_tables = << >>
                       THEN s_pc' = "done" /\ UNCHANGED << s_k, s_cmds >>
                       ELSE /\ s_pc' = "remove"
                            /\ s_k' = 1
                            /\ s_cmds' = Append(s_cmds, s_tables[1])
    /\ UNCHANGED s_tables
    /\ UNCHANGED << pipelineVars, clusterVars, restartVars, healthVars, nodeVars, parseVars, rollingVars, moreVars >>

\* remove_table of table s_k ends: it returns and the loop calls remove_table
\* for the next table, or it raises and the exception leaves the workflow.
remove_table_ends ==
    /\ s_pc = "remove"
    /\ \/ /\ s_pc' = "raised"
          /\ UNCHANGED << s_k, s_cmds >>
       \/ IF s_k < Len(s_tables)
          THEN /\ s_k' = s_k + 1
               /\ s_cmds' = Append(s_cmds, s_tables[s_k + 1])
               /\ UNCHANGED s_pc
          ELSE /\ s_pc' = "done"
               /\ UNCHANGED << s_k, s_cmds >>
    /\ UNCHANGED << s_tables, s_results >>
    /\ UNCHANGED << pipelineVars, clusterVars, restartVars, healthVars, nodeVars, parseVars, rollingVars, moreVars >>

SchemaInit ==
    /\ s_pc = "idle"
    /\ s_tables = << >>
    /\ s_results = << >>
    /\ s_k = 0
    /\ s_cmds = << >>

SchemaNext ==
    \/ remove_geomesa_schema
    \/ identify_schema_tables
    \/ tables_exist
    \/ remove_table_ends

(***************************************************************************)
(* The line parsers applied to one line (geomesa_cassandra.py, node.py).   *)
(***************************************************************************)
\* Longest line handed to the parsers, in tokens (a bound of the model).
MaxTokens == 4

\* The tokens the lines are made of.
ParseTokens == { "c1", "snap1", "COMPACTION", "ks1", "tbl1", "--", "tbl1.idx" }

RECURSIVE LinesOfLength(_)
LinesOfLength(n) ==
    IF n = 0 THEN { << >> }
    ELSE { Append(l, t) : l \in LinesOfLength(n - 1), t \in ParseTokens }

\* Every line of at most MaxTokens tokens.
Lines == UNION { LinesOfLength(n) : n \in 0..MaxTokens }

\* The parser named which, applied to a line.
Parser(which, line) ==
    IF which = "compaction" THEN parse_compaction(line) ELSE parse_snapshot(line)

\* parse_compaction(line) or parse_snapshot(line) is called for the first time.
Parse(which) ==
    /\ p_count = 0
    /\ p_which' = which
    /\ p_count' = 1
    /\ p_first' = Parser(which, p_line)
    /\ p_result' = Parser(which, p_line)
    /\ UNCHANGED p_line
    /\ UNCHANGED << pipelineVars, clusterVars, restartVars, healthVars, nodeVars, rollingVars, schemaVars, moreVars >>

\* The same parser is called again on the same line.
ParseAgain ==
    /\ p_count = 1
    /\ p_count' = 2
    /\ p_result' = Parser(p_which, p_line)
    /\ UNCHANGED << p_line, p_which, p_first >>
    /\ UNCHANGED << pipelineVars, clusterVars, restartVars, healthVars, nodeVars, rollingVars, schemaVars, moreVars >>

\* No line is being parsed.
ParseIdle ==
    /\ p_line = << >>
    /\ p_which = "none"
    /\ p_count = 0
    /\ p_first = None
    /\ p_result = None

\* Any line is about to be parsed.
ParseInit ==
    /\ p_line \in Lines
    /\ p_which = "none"
    /\ p_count = 0
    /\ p_first = None
    /\ p_result = None

ParseNext ==
    \/ \E which \in { "compaction", "snapshot" } : Parse(which)
    \/ ParseAgain

(***************************************************************************)
(* The script of node.py: one command name, dispatched to a method of node.*)
(***************************************************************************)
\* The command names the branches of the script test for, with the method of
\* node each branch calls.
Operation ==
    [c \in { "restart", "start", "stop", "up", "status", "info", "flush",
             "compactionstats", "find-table-compactions", "stop-table-compactions",
             "stop-compaction", "listsnapshots", "find-table-snapshots",
             "clear-table-snapshots", "repair-table", "cleanup-table",
             "compact-table", "cqlsh" } |->
        CASE c = "up"                     -> "is_up"
          [] c = "flush"                  -> "flush_table"
          [] c = "find-table-compactions" -> "find_table_compactions"
          [] c = "stop-table-compactions" -> "stop_table_compactions"
          [] c = "stop-compaction"        -> "stop_compaction"
          [] c = "find-table-snapshots"   -> "find_table_snapshots"
          [] c = "clear-table-snapshots"  -> "clear_table_snapshots"
          [] c = "repair-table"           -> "repair_table"
          [] c = "cleanup-table"          -> "cleanup_table"
          [] c = "compact-table"          -> "compact_table"
          [] OTHER                        -> c]

RecognisedCommands == DOMAIN Operation

\* Command names the script has no branch for.
OtherCommands == { "uptime", "nodetool version" }

\* The optional argument a branch checks before its call.
Required(c) ==
    CASE c \in { "flush", "find-table-compactions", "stop-table-compactions",
                 "find-table-snapshots", "clear-table-snapshots", "repair-table",
                 "cleanup-table", "compact-table" }  -> "table"
      [] c = "stop-compaction"                       -> "compaction_id"
      [] c = "cqlsh"                                 -> "cql_command"
      [] OTHER                                       -> "none"

\* The branches whose call leaves out the positional parameter async_ of the
\* method: stop_table_compactions and clear_table_snapshots have no default.
MissingArgument(c) == c \in { "stop-table-compactions", "clear-table-snapshots" }

\* The command names tested by the if/elif chain that ends with the else
\* branch: it begins at 'if args.command == "start"'.
ChainCommands == RecognisedCommands \ { "restart" }

\* The script calls a method of node.
Call(op, arg) == d_calls' = Append(d_calls, [op |-> op, arg |-> arg])

\* if args.command == "restart": node.restart()
Dispatch_restart ==
    /\ d_pc = "first"
    /\ IF d_command = "restart"
       THEN d_pc' = "restarting" /\ Call("restart", "")
       ELSE d_pc' = "chain" /\ UNCHANGED d_calls
    /\ UNCHANGED << d_command, d_args, d_error >>
    /\ UNCHANGED << pipelineVars, clusterVars, restartVars, healthVars, nodeVars >>
    /\ UNCHANGED << parseVars, rollingVars, schemaVars, snapVars >>

\* node.restart() returns, or raises and ends the script.
Dispatch_restart_ends ==
    /\ d_pc = "restarting"
    /\ \/ d_pc' = "chain" /\ UNCHANGED d_error
       \/ d_pc' = "raised" /\ d_error' = "TimeoutError"
    /\ UNCHANGED << d_command, d_args, d_calls >>
    /\ UNCHANGED << pipelineVars, clusterVars, restartVars, healthVars, nodeVars >>
    /\ UNCHANGED << parseVars, rollingVars, schemaVars, snapVars >>

\* The chain if "start" / elif ... / else: the branch of the command checks
\* its argument (argparse has no attribute error) and calls its method; the
\* else branch hands the command name to node.run.
Dispatch_chain ==
    /\ d_pc = "chain"
    /\ IF d_command \in ChainCommands
       THEN IF Required(d_command) # "none" /\ ~d_args[Required(d_command)]
            THEN d_pc' = "raised" /\ d_error' = "AttributeError" /\ UNCHANGED d_calls
            ELSE IF MissingArgument(d_command)
                 THEN d_pc' = "raised" /\ d_error' = "TypeError" /\ UNCHANGED d_calls
                 ELSE d_pc' = "calling" /\ Call(Operation[d_command], "") /\ UNCHANGED d_error
       ELSE d_pc' = "calling" /\ Call("run", d_command) /\ UNCHANGED d_error
    /\ UNCHANGED << d_command, d_args >>
    /\ UNCHANGED << pipelineVars, clusterVars, restartVars, healthVars, nodeVars >>
    /\ UNCHANGED << parseVars, rollingVars, schemaVars, snapVars >>

\* The method called by the chain returns, or raises and ends the script.
Dispatch_call_ends ==
    /\ d_pc = "calling"
    /\ \/ d_pc' = "done" /\ UNCHANGED d_error
       \/ d_pc' = "raised" /\ d_error' = "ConnectError"
    /\ UNCHANGED << d_command, d_args, d_calls >>
    /\ UNCHANGED << pipelineVars, clusterVars, restartVars, healthVars, nodeVars >>
    /\ UNCHANGED << parseVars, rollingVars, schemaVars, snapVars >>

NoArgs == [a \in { "table", "compaction_id", "cql_command" } |-> FALSE]

\* The script is not running.
DispatchIdle ==
    /\ d_pc = "idle"
    /\ d_command = "none"
    /\ d_args = NoArgs
    /\ d_calls = << >>
    /\ d_error = "none"

\* The script starts with any command name and any of the optional arguments.
DispatchInit ==
    /\ d_pc = "first"
    /\ d_command \in RecognisedCommands \cup OtherCommands
    /\ d_args \in [{ "table", "compaction_id", "cql_command" } -> BOOLEAN]
    /\ d_calls = << >>
    /\ d_error = "none"

DispatchNext ==
    \/ Dispatch_restart
    \/ Dispatch_restart_ends
    \/ Dispatch_chain
    \/ Dispatch_call_ends

(***************************************************************************)
(* clear_table_snapshots (geomesa_cassandra.py) on hosts that hold         *)
(* snapshots: list them, find those of the table, clear each by its name.  *)
(***************************************************************************)
\* The snapshots a host may hold, in the order "nodetool listsnapshots" lists
\* them: one line "name keyspace table" per snapshot and table.
SnapshotOrder ==
    << [name |-> "snap1", keyspace |-> "ks1", table |-> "tbl1"],
       [name |-> "snap1", keyspace |-> "ks1", table |-> "tbl2"],
       [name |-> "snap2", keyspace |-> "ks1", table |-> "tbl2"] >>

\* stdout of "nodetool listsnapshots" on a host that holds the snapshots S.
Listing(S) ==
    LET held == SelectSeq(SnapshotOrder, LAMBDA r : r \in S)
    IN [k \in 1..Len(held) |-> << held[k].name, held[k].keyspace, held[k].table >>]

\* "nodetool clearsnapshot -t name -- keyspace" on a host that holds S: the
\* snapshot of that name is removed for every table of the keyspace.
ClearSnapshot(S, name, keyspace) ==
    S \ { r \in S : r.name = name /\ r.keyspace = keyspace }

\* clear_table_snapshots is called: find_table_snapshots sends the listings.
Snap_clear_table_snapshots ==
    /\ sn_pc = "start"
    /\ sn_pc' = "listing"
    /\ UNCHANGED << sn_store, sn_before, sn_targets, sn_left >>
    /\ UNCHANGED << pipelineVars, clusterVars, restartVars, healthVars, nodeVars >>
    /\ UNCHANGED << parseVars, rollingVars, schemaVars, dispatchVars >>

\* list_snapshots returns: each host has listed what it holds, or its command
\* raised.  find_table_snapshots raises for a result that is an exception,
\* else it returns the snapshots of the table, and clear_table_snapshots
\* gathers one clearsnapshot command per snapshot returned.
Snap_find_table_snapshots ==
    /\ sn_pc = "listing"
    /\ \E F \in SUBSET Nodes :
          LET rs == [k \in 1..NumNodes |->
                        IF k \in F THEN Exc(k) ELSE Res(k, Listing(sn_store[k]), FALSE, 0)]
              found == find_table_snapshots(rs, get_remote_ips, 1, Keyspace, Table)
          IN IF \E k \in 1..NumNodes : get_output_or_raise_raises(rs[k])
             THEN /\ sn_pc' = "raised"
                  /\ UNCHANGED << sn_targets, sn_left >>
             ELSE /\ sn_targets' = found
                  /\ sn_left' = 1..Len(found)
                  /\ sn_pc' = IF found = << >> THEN "done" ELSE "clearing"
    /\ UNCHANGED << sn_store, sn_before >>
    /\ UNCHANGED << pipelineVars, clusterVars, restartVars, healthVars, nodeVars >>
    /\ UNCHANGED << parseVars, rollingVars, schemaVars, dispatchVars >>

\* One clearsnapshot command of the gather ends: it ran on the host of its
\* snapshot, or its session failed; gather returns after the last one.
Snap_clearsnapshot ==
    /\ sn_pc = "clearing"
    /\ \E k \in sn_left :
          LET t == sn_targets[k]
          IN /\ \/ sn_store' = [sn_store EXCEPT
                                   ![t.node] = ClearSnapshot(@, t.name, t.keyspace)]
                \/ UNCHANGED sn_store
             /\ sn_left' = sn_left \ { k }
             /\ sn_pc' = IF sn_left = { k } THEN "done" ELSE "clearing"
    /\ UNCHANGED << sn_before, sn_targets >>
    /\ UNCHANGED << pipelineVars, clusterVars, restartVars, healthVars, nodeVars >>
    /\ UNCHANGED << parseVars, rollingVars, schemaVars, dispatchVars >>

\* clear_table_snapshots is not running and the hosts hold no snapshot.
SnapIdle ==
    /\ sn_pc = "idle"
    /\ sn_store = [n \in Nodes |-> {}]
    /\ sn_before = sn_store
    /\ sn_targets = << >>
    /\ sn_left = {}

\* clear_table_snapshots is about to be called; each host holds any snapshots.
SnapInit ==
    /\ sn_pc = "start"
    /\ sn_store \in [Nodes -> SUBSET { SnapshotOrder[k] : k \in 1..Len(SnapshotOrder) }]
    /\ sn_before = sn_store
    /\ sn_targets = << >>
    /\ sn_left = {}

SnapNext ==
    \/ Snap_clear_table_snapshots
    \/ Snap_find_table_snapshots
    \/ Snap_clearsnapshot

MoreIdle == DispatchIdle /\ SnapIdle

PipelineInit ==
    /\ pc = "start"
    /\ tasks = << >>
    /\ gid = 0
    /\ compactions = << >>
    /\ ci = 0
    /\ failedSteps = {}
    /\ dispatched = [p \in Phases |-> << >>]
    /\ raisedIn = "none"

PipelineNext ==
    \/ remove_table
    \/ \E i \in 1..Len(tasks) : TaskConnect(i)
    \/ \E i \in 1..Len(tasks) : TaskFinish(i)
    \/ flush_table
    \/ get_compaction_stats
    \/ stop_compations_of_table
    \/ truncate_table
    \/ list_snapshots
    \/ clear_table_snapshots
    \/ repair_table
    \/ cleanup_table
    \/ compact_table

vars == << pipelineVars, clusterVars, restartVars, healthVars, nodeVars, otherVars >>

Init ==
    /\ PipelineInit /\ ClusterInit /\ RestartIdle /\ HealthInit /\ NodeInit
    /\ ParseIdle /\ RollingInit /\ SchemaInit /\ MoreIdle

Next == PipelineNext \/ ClusterNext

\* The fan-out scripts: remove_table of geomesa_cassandra.py, or one Cluster call.
Spec == Init /\ [][Next]_vars

\* The steps the scripts and the event loop take by themselves: everything but
\* the end of a command that was started on a host.
Progress ==
    \/ remove_table
    \/ \E i \in 1..Len(tasks) : TaskConnect(i)
    \/ flush_table
    \/ get_compaction_stats
    \/ stop_compations_of_table
    \/ truncate_table
    \/ list_snapshots
    \/ clear_table_snapshots
    \/ repair_table
    \/ cleanup_table
    \/ compact_table
    \/ \E op \in ClusterOps \cup ClusterFindOps \cup { "clear_table_snapshots" } : ClusterCall(op)
    \/ Cluster_run_unpack
    \/ async_find_table
    \/ Remote_run_connect
    \/ Cluster_run

\* The fan-out scripts when every step of theirs that can be taken is taken.
\* A host owes nothing: connection.run has no timeout and may never return.
FairSpecFanOut == Spec /\ WF_vars(Progress)

\* Node.restart on one host.
InitRestart ==
    /\ PipelineInit /\ ClusterInit /\ RestartInit /\ HealthInit /\ NodeInit
    /\ ParseIdle /\ RollingInit /\ SchemaInit /\ MoreIdle

SpecRestart == InitRestart /\ [][RestartNext]_vars

\* restart runs in the calling thread: every step of it that can be taken is
\* taken (a blocking command returns or raises, a sleep ends).
FairSpecRestart == SpecRestart /\ WF_vars(RestartNext)

\* One call of Cluster.is_up.
SpecHealth == Init /\ [][HealthNext]_vars

\* One call of a Node method, or of the Cluster method that loops over them.
SpecNode == Init /\ [][NodeNext]_vars

\* One line parsed by parse_compaction or by parse_snapshot.
InitParse ==
    /\ PipelineInit /\ ClusterInit /\ RestartIdle /\ HealthInit /\ NodeInit
    /\ ParseInit /\ RollingInit /\ SchemaInit /\ MoreIdle

SpecParse == InitParse /\ [][ParseNext]_vars

\* One call of Cluster.restart.
InitRolling ==
    /\ PipelineInit /\ ClusterInit /\ RestartInit /\ HealthInit /\ NodeInit
    /\ ParseIdle /\ RollingStart /\ SchemaInit /\ MoreIdle

SpecRolling == InitRolling /\ [][RollingNext]_vars

\* One call of remove_geomesa_schema.
SpecSchema == Init /\ [][SchemaNext]_vars

\* One run of the script of node.py.
InitDispatch ==
    /\ PipelineInit /\ ClusterInit /\ RestartIdle /\ HealthInit /\ NodeInit
    /\ ParseIdle /\ RollingInit /\ SchemaInit /\ DispatchInit /\ SnapIdle

SpecDispatch == InitDispatch /\ [][DispatchNext]_vars

\* One call of clear_table_snapshots of geomesa_cassandra.py.
InitSnap ==
    /\ PipelineInit /\ ClusterInit /\ RestartIdle /\ HealthInit /\ NodeInit
    /\ ParseIdle /\ RollingInit /\ SchemaInit /\ DispatchIdle /\ SnapInit

SpecSnap == InitSnap /\ [][SnapNext]_vars

(***************************************************************************)
(* Properties of the fan-outs and of remove_table, checked under Spec.     *)
(***************************************************************************)
\* The phases of remove_table that gather one command per host of the list.
FanOutPhases == { "flush", "compactionstats", "listsnapshots", "repair", "cleanup", "compact" }

\* A result list with one entry per host, the i-th from the i-th host.
OneResultPerNode(rs) ==
    /\ Len(rs) = NumNodes
    /\ \A i \in 1..Len(rs) : rs[i].kind \in { "result", "exc" } /\ rs[i].node = get_remote_ips[i]

\* A Cluster method has ended, by returning or by raising.
ClusterEnded == cl_pc \in { "returned", "raised" }

\* C1: every fan-out ends by returning exactly one result per node, the i-th
\* result being the i-th node's, whichever nodes fail and in whatever order
\* they complete: the gathers of geomesa_cassandra.py when they stop waiting,
\* and Cluster._run over the tasks of a Cluster method.
C1_FanOutReturnsOneResultPerNode ==
    /\ (pc \in FanOutPhases /\ GatherDone(Children, TRUE))
          => OneResultPerNode(GatherResults(Children))
    /\ ClusterEnded => (cl_pc = "returned" /\ OneResultPerNode(cl_results))

\* C2: a node whose command raises neither cancels nor blocks a sibling: in a
\* gather of geomesa_cassandra.py every unfinished task can still take its next
\* step, and when a Cluster fan-out during which some node's command raised has
\* ended, the command of every other node has run to its end.
C2_FanOutIndependent ==
    /\ \A i \in 1..Len(tasks) :
          (pc \in FanOutPhases /\ tasks[i].st # "done")
             => ENABLED (TaskConnect(i) \/ TaskFinish(i))
    /\ (ClusterEnded /\ cl_raised # {})
          => \A n \in Nodes \ cl_raised : n \in cl_finished

\* The phases that follow the flush, and those that follow the truncate.
AfterFlush == Phases \ { "flush" }

AfterTruncate == { "listsnapshots", "clearsnapshot", "repair", "cleanup", "compact" }

\* C3: once the flush has failed on some node with a genuine execution error,
\* no command of a later step is ever created, and the flush was attempted
\* exactly once per node.
C3_FlushFailureAborts ==
    "flush" \in failedSteps
       => /\ \A p \in AfterFlush : dispatched[p] = << >>
          /\ Len(dispatched["flush"]) = NumNodes

\* C4: once the truncate on the seed node has failed with a genuine execution
\* error (nothing else having failed), the pipeline is aborted with truncate
\* reported as the failed step, and no command of clear snapshots, repair,
\* cleanup or compact is ever created.
C4_TruncateFailureAborts ==
    (failedSteps = { "truncate" } /\ pc # "truncate")
       => /\ pc = "raised" /\ raisedIn = "truncate"
          /\ \A p \in AfterTruncate : dispatched[p] = << >>

\* The phases of step 2, step 4 and step 5.
BestEffortPhases == { "compactionstats", "stop_compaction", "listsnapshots",
                      "clearsnapshot", "repair", "cleanup", "compact" }

\* C5: a failure during stop compactions, clear snapshots, repair, cleanup or
\* compact never aborts the pipeline: when commands have failed in these phases
\* only, remove_table has not been left by an exception.
C5_BestEffortStepsNeverAbort ==
    (failedSteps # {} /\ failedSteps \subseteq BestEffortPhases) => pc # "raised"

\* The step of the pipeline a phase belongs to, in the order of remove_table.
StepOf(phase) ==
    CASE phase = "flush"           -> 1
      [] phase = "compactionstats" -> 2
      [] phase = "stop_compaction" -> 2
      [] phase = "truncate"        -> 3
      [] phase = "listsnapshots"   -> 4
      [] phase = "clearsnapshot"   -> 4
      [] phase = "repair"          -> 5
      [] phase = "cleanup"         -> 6
      [] phase = "compact"         -> 7

\* The phases every run goes through before it starts a phase of step k.
Before(k) == { p \in Phases \ { "stop_compaction", "clearsnapshot" } : StepOf(p) < k }

\* C6: the steps start in the order flush, stop compactions, truncate, clear
\* snapshots, repair, cleanup, compact and never overlap: while the pipeline is
\* in a phase, every command that has not completed belongs to that phase, every
\* earlier step has been started, and no later step has.
C6_StepsInOrderNoOverlap ==
    pc \in Phases =>
       /\ \A i \in 1..Len(tasks) : tasks[i].st # "done" => tasks[i].phase = pc
       /\ \A p \in Before(StepOf(pc)) : dispatched[p] # << >>
       /\ dispatched[pc] # << >> \/ pc = "clearsnapshot"
       /\ \A p \in Phases : StepOf(p) > StepOf(pc) => dispatched[p] = << >>

\* Witness of C6: the pipeline has reached compact while the repair of some
\* node had failed, and a compact command is still running.
C6_Witness ==
    /\ pc = "compact"
    /\ "repair" \in failedSteps
    /\ \E i \in 1..Len(tasks) : tasks[i].st = "running"

\* C7: the truncate command is created at most once, only for the seed node
\* (the first host of the list), and exactly once in every run that goes past
\* the truncate step.
C7_TruncateOnceOnSeed ==
    /\ Len(dispatched["truncate"]) <= 1
    /\ \A k \in 1..Len(dispatched["truncate"]) : dispatched["truncate"][k] = get_remote_ips[1]
    /\ \A i \in 1..Len(tasks) : tasks[i].phase = "truncate" => tasks[i].node = get_remote_ips[1]
    /\ pc \in AfterTruncate \cup { "truncate", "done" } => Len(dispatched["truncate"]) = 1

\* Witness of C7: a run on several hosts has ended after one truncate.
C7_Witness ==
    /\ pc = "done"
    /\ NumNodes > 1
    /\ dispatched["truncate"] = << get_remote_ips[1] >>

(***************************************************************************)
(* Properties of Node.restart, checked under SpecRestart and, for          *)
(* termination, under FairSpecRestart.                                     *)
(***************************************************************************)
\* C8: against a host whose health check is false on every poll (every command
\* returning), restart ends, and ends timed out: it never returns healthy, it
\* leaves the loop only once the timeout has elapsed, and TimeoutError is what
\* reaches the caller.  The run that leaves this case (a poll was true, or a
\* command raised) is the only one that does not end timed out.
C8_Safety ==
    (r_pc \in { "healthy", "timedout" } /\ r_firstTrueAt = 0)
       => /\ r_pc = "timedout"
          /\ r_error = "TimeoutError"
          /\ r_elapsed >= RESTART_TIMEOUT
          /\ r_polls >= 1

C8_AlwaysUnhealthyTimesOut ==
    /\ []C8_Safety
    /\ <>(r_pc = "timedout" \/ r_error = "ConnectError" \/ r_firstTrueAt # 0)

\* Witness of C8: restart has timed out after polls that were all false.
C8_Witness ==
    /\ r_pc = "timedout"
    /\ r_firstTrueAt = 0
    /\ r_polls > 1

\* C9: restart returns healthy at the first poll whose health check is true and
\* polls no more: once poll k has been the first true one, restart has returned
\* and exactly k polls have been made; and it returns healthy in no other way.
C9_HealthyAtFirstTruePoll ==
    /\ r_pc = "healthy" => (r_firstTrueAt # 0 /\ r_polls = r_firstTrueAt)
    /\ r_firstTrueAt # 0 => (r_pc = "healthy" /\ r_polls = r_firstTrueAt)

\* Witness of C9: false, false, true: healthy after exactly three polls.
C9_Witness ==
    /\ r_pc = "healthy"
    /\ r_firstTrueAt = 3
    /\ r_polls = 3

\* The steps of the state machine of restart: Stopped is "stop", Starting is
\* "start", Polling is "loop", "poll" and "sleep"; "raised" is a command that
\* raised.  Nothing leaves "healthy", "timedout" or "raised".
RestartTransitions ==
    { <<"idle", "stop">>, <<"stop", "start">>, <<"stop", "raised">>,
      <<"start", "loop">>, <<"start", "raised">>, <<"loop", "poll">>,
      <<"loop", "timedout">>, <<"poll", "healthy">>, <<"poll", "sleep">>,
      <<"poll", "raised">>, <<"sleep", "loop">> }

\* A step of restart is one of these transitions.
RestartStep == (<<r_pc, r_pc'>> \in RestartTransitions)

\* The commands sent so far: stop, then start, then only health polls; both
\* have been sent when polling begins, one "nodetool info" per poll after them.
C10_Commands ==
    /\ r_pc = "idle" => r_cmds = << >>
    /\ r_pc = "stop" => Len(r_cmds) = 1
    /\ r_pc = "start" => Len(r_cmds) = 2
    /\ r_pc \in { "loop", "poll", "sleep", "healthy", "timedout" } => Len(r_cmds) = 2 + r_polls
    /\ Len(r_cmds) >= 1 => r_cmds[1] = "sudo systemctl stop cassandra"
    /\ Len(r_cmds) >= 2 => r_cmds[2] = "sudo systemctl start cassandra"
    /\ \A k \in 3..Len(r_cmds) : r_cmds[k] = "nodetool info"

\* C10: every run of restart follows Stopped, Starting, Polling, then Healthy or
\* TimedOut: stop is sent first, start after it and before the first poll, both
\* whatever the state of the service was, neither again once polling has begun,
\* and Healthy and TimedOut are terminal.
C10_RestartStateMachine ==
    /\ []C10_Commands
    /\ [][RestartStep]_vars

\* Witness of C10: restart of a service that was already stopped has sent stop
\* and start, polled, and ended healthy.
C10_Witness ==
    /\ r_prior = "stopped"
    /\ r_pc = "healthy"
    /\ r_polls >= 2

(***************************************************************************)
(* Properties of the discovery of compactions and snapshots and of the     *)
(* commands derived from it, checked under Spec and SpecNode.              *)
(***************************************************************************)
\* C11: compaction discovery never raises because a node failed: no exception
\* leaves remove_table while it reads the results of compactionstats, and a
\* call of Cluster.find_table_compactions ends by returning.
C11_DiscoveryNeverRaises ==
    /\ raisedIn # "compactionstats"
    /\ (cl_op = "find_table_compactions" /\ ClusterEnded) => cl_pc = "returned"

\* The ids of the compactions of (Keyspace, Table) in the outputs of the model.
MatchingCompactionIds == { "c1", "c3" }

\* C12: compaction discovery returns the compaction records of the requested
\* keyspace and table over all nodes, each tagged with the node that reported
\* it: Cluster.find_table_compactions ends by returning them, and the list
\* stop_compations_of_table iterates holds records of a node of the cluster
\* and of a compaction of the table.
C12_DiscoveryReturnsTaggedRecords ==
    /\ (cl_op = "find_table_compactions" /\ cl_pc \in { "returned", "raised" })
          => (cl_pc = "returned" /\ cl_error = "none")
    /\ \A k \in 1..Len(compactions) :
          /\ compactions[k].node \in Nodes
          /\ compactions[k].compaction_id \in MatchingCompactionIds

\* The names on the lines name, keyspace, table of a listing whose keyspace and
\* table are the requested ones.
MatchingSnapshotNames(lines) ==
    { lines[k][1] : k \in { j \in 1..Len(lines) :
                              /\ Len(lines[j]) >= 3
                              /\ lines[j][2] = Keyspace
                              /\ lines[j][3] = Table } }

Range(seq) == { seq[k] : k \in 1..Len(seq) }

\* A Node call has ended, and not because a session failed.
NodeEnded == n_pc \in { "returned", "raised" } /\ n_error # "ConnectError"

\* C13: Node.find_table_snapshots, sync or async, returns the names of the
\* snapshots of the requested keyspace and table that the listing of the node
\* contains, and no other name.
C13_SnapshotDiscovery ==
    (n_op = "find_table_snapshots" /\ NodeEnded)
       => /\ n_pc = "returned"
          /\ Range(n_result) = MatchingSnapshotNames(n_out[1])

\* C14: when stop_table_compactions (of Node, or of Cluster over every node)
\* has ended, the stop command of every compaction that was discovered has been
\* run on the node it was discovered on.
C14_EveryDiscoveredCompactionStopped ==
    (n_op \in { "stop_table_compactions", "Cluster.stop_table_compactions" } /\ NodeEnded)
       => /\ n_pc = "returned"
          /\ \A k \in 1..Len(n_discovered) :
                [node |-> n_discovered[k].node, cmd |-> "nodetool stop -id",
                 arg |-> n_discovered[k].id] \in Range(n_cmds)

\* C15: stopping a compaction is best-effort: a stop command to which the
\* remote tool answered (whatever it wrote on stderr) counts as a success, and
\* no exception leaves remove_table on its account.
C15_StopCompactionBestEffort ==
    \A i \in 1..Len(tasks) :
       (tasks[i].phase = "stop_compaction" /\ tasks[i].st = "done" /\ tasks[i].raw.kind = "result")
          => (tasks[i].res.kind = "result" /\ pc # "raised")

\* C16: clearing the snapshots of a table runs one clear command per snapshot
\* discovered, on the node that owns it: Cluster.clear_table_snapshots ends by
\* returning, and the clearsnapshot commands of remove_table are those of
\* snapshots of the table, at most one per node in the outputs of the model.
C16_EveryDiscoveredSnapshotCleared ==
    /\ (cl_op = "clear_table_snapshots" /\ cl_pc \in { "returned", "raised" })
          => (cl_pc = "returned" /\ cl_error = "none")
    /\ \A i \in 1..Len(tasks) :
          tasks[i].phase = "clearsnapshot"
             => tasks[i].arg \in { "snap1" } /\ tasks[i].node \in Nodes
    /\ Len(dispatched["clearsnapshot"]) <= NumNodes

(***************************************************************************)
(* Properties of the health checks, checked under SpecHealth.              *)
(***************************************************************************)
\* The three subsystems "nodetool info" reports on.
Markers == { "Gossip", "Thrift", "Transport" }

\* What an info output reports for a subsystem: the word after its name.
RECURSIVE Reported(_, _)
Reported(text, marker) ==
    IF Len(text) < 2 THEN "absent"
    ELSE IF Head(text) = marker THEN text[2]
    ELSE Reported(Tail(text), marker)

AllActive(text) == \A m \in Markers : Reported(text, m) = "true"

\* C17: is_up answers true only for an info output that reports Gossip, Thrift
\* and Transport all three as active, whatever else the output holds.
C17_IsUpOnlyIfAllActive ==
    \A s \in 1..Evaluations : \A k \in 1..Len(h_reports[s]) :
       h_reports[s][k].up => AllActive(h_reports[s][k].out)

\* C18: when Cluster.is_up returns, every evaluation has asked every node, in
\* node order, whatever the earlier nodes answered, and the value returned is
\* true if and only if every node answered healthy in the evaluation that is
\* returned; an evaluation in progress has asked the nodes before the next one.
C18_ClusterIsUpAllNodes ==
    /\ h_pc = "returned" =>
          /\ \A s \in 1..Evaluations :
                /\ Len(h_reports[s]) = NumNodes
                /\ \A k \in 1..NumNodes : h_reports[s][k].node = k
          /\ h_result = Bool(\A k \in 1..NumNodes : h_reports[Evaluations][k].up)
    /\ h_pc = "sweep" => Len(h_reports[h_sweep]) < NumNodes

\* Witness of C18: the first node answered unhealthy in the evaluation that is
\* returned, every node was asked all the same, and False was returned.
C18_Witness ==
    /\ h_pc = "returned"
    /\ h_result = "False"
    /\ Len(h_reports[Evaluations]) = NumNodes
    /\ ~h_reports[Evaluations][1].up
    /\ h_reports[Evaluations][NumNodes].up

(***************************************************************************)
(* Properties of what the callers of Cluster and of remove_table receive,  *)
(* checked under Spec.                                                     *)
(***************************************************************************)
\* C19: a cluster-wide operation of Cluster captures the failure of a node as
\* that node's result: it ends by returning one result per node, never by
\* raising, and the command has been run on every node.
C19_ClusterCapturesFailures ==
    (cl_op \in ClusterOps /\ cl_pc \in { "returned", "raised" })
       => /\ cl_error = "none"
          /\ Len(cl_results) = NumNodes
          /\ cl_finished \cup cl_raised = Nodes

\* remove_table has no return statement: its caller receives None.
remove_table_returns == None

\* C20: the caller of remove_table always receives the list of the results of
\* the steps attempted, never an exception in its place.
C20_PipelineReturnsResultList ==
    /\ pc # "raised"
    /\ pc = "done" => remove_table_returns # None

(***************************************************************************)
(* Properties of the sessions, checked under Spec.                         *)
(***************************************************************************)
\* C21: the connection opened for a command is closed when the execution of
\* the command ends, whether it returns or raises; no connection is open that
\* does not belong to a command still running, and a command only runs on an
\* open connection.
C21_SessionRelease ==
    /\ \A i \in 1..Len(tasks) : tasks[i].connected <=> tasks[i].st = "running"
    /\ cl_connected <=> cl_pc = "running"
    /\ (pc \in { "done", "raised" } \/ cl_pc \in { "returned", "raised" })
          => /\ ~cl_connected
             /\ \A i \in 1..Len(tasks) : ~tasks[i].connected

\* Witness of C21: a command that ran on an open connection has raised on
\* account of its stderr, the exception has left remove_table, and the
\* connection is closed.
C21_Witness ==
    /\ \E i \in 1..Len(tasks) :
          /\ tasks[i].st = "done"
          /\ tasks[i].raw.kind = "result"
          /\ tasks[i].res.kind = "exc"
          /\ ~tasks[i].connected
    /\ pc = "raised"

\* C22: a result with a non-empty stderr is handed to the caller as it is: no
\* command raises on account of stderr alone.
C22_StderrAloneNeverFails ==
    \A i \in 1..Len(tasks) :
       (tasks[i].st = "done" /\ tasks[i].raw.kind = "result" /\ tasks[i].raw.stderr)
          => tasks[i].res = tasks[i].raw

(***************************************************************************)
(* Properties of the line parsers, checked under SpecParse.                *)
(***************************************************************************)
\* The record made of the first four tokens of a line.
CompactionRecord(line) ==
    [matched |-> TRUE, id |-> line[1], type |-> line[2], keyspace |-> line[3],
     table |-> line[4]]

\* The record made of the first three tokens of a line.
SnapshotRecord(line) ==
    [matched |-> TRUE, name |-> line[1], keyspace |-> line[2], table |-> line[3]]

\* C23: parse_compaction gives, for every line, the record of the first four
\* tokens of the line or nothing; nothing for a line of fewer than four tokens;
\* the same when the line is parsed again; and the record c1, COMPACTION, ks1,
\* tbl1 for the line "c1 COMPACTION ks1 tbl1".
C23_CompactionParsingTotal ==
    (p_which = "compaction" /\ p_count >= 1)
       => /\ Len(p_line) < 4 => p_result = None
          /\ p_result # None => (Len(p_line) >= 4 /\ p_result = CompactionRecord(p_line))
          /\ p_count = 2 => p_result = p_first
          /\ p_line = <<"c1", "COMPACTION", "ks1", "tbl1">>
                => p_result = [matched |-> TRUE, id |-> "c1", type |-> "COMPACTION",
                               keyspace |-> "ks1", table |-> "tbl1"]

\* C24: parse_snapshot gives the record of the first three tokens of every line
\* whose first three tokens are a name, a keyspace and a table, and nothing for
\* a line of fewer than three tokens; a record it gives is made of the tokens.
C24_SnapshotParsing ==
    (p_which = "snapshot" /\ p_count >= 1)
       => /\ Len(p_line) < 3 => p_result = None
          /\ p_result # None => (Len(p_line) >= 3 /\ p_result = SnapshotRecord(p_line))
          /\ (Len(p_line) >= 3 /\ IsWord(p_line[1]) /\ IsWord(p_line[2]))
                => p_result = SnapshotRecord(p_line)

(***************************************************************************)
(* Termination of the fan-outs, checked under FairSpecFanOut.              *)
(***************************************************************************)
\* C25: a fan-out always eventually returns (or raises), even when a host
\* never answers: remove_table ends, or the Cluster call ends.
C25_FanOutEventuallyReturns ==
    <>(pc \in { "done", "raised" } \/ cl_pc \in { "returned", "raised" })

(***************************************************************************)
(* The sleeps of Node.restart, checked under SpecRestart.                  *)
(***************************************************************************)
\* A poll is sent after another: one sleep has ended per poll made before, and
\* the poll interval has passed since the last poll was sent.
C26_Step ==
    (r_polls' = r_polls + 1 /\ r_polls >= 1)
       => /\ r_sleeps = r_polls
          /\ r_elapsed >= r_lastPoll + POLL_INTERVAL

\* C26: between two consecutive polls of a restart there is exactly one sleep
\* of the poll interval: when poll k is out, k - 1 sleeps have ended, and two
\* polls are never sent closer together than the poll interval.
C26_OneSleepBetweenPolls ==
    /\ [](r_pc \in { "poll", "sleep" } => r_sleeps = r_polls - 1)
    /\ [](r_pc = "loop" => r_sleeps = r_polls)
    /\ [][C26_Step]_vars

\* Witness of C26: the third poll is out, after two sleeps.
C26_Witness ==
    /\ r_pc = "poll"
    /\ r_polls = 3
    /\ r_sleeps = 2
    /\ r_elapsed >= 2 * POLL_INTERVAL

(***************************************************************************)
(* Order of the commands of one Node operation, checked under SpecNode.    *)
(***************************************************************************)
\* The commands stop_table_compactions issues on its node: the listing, then
\* the stop of each compaction found, in the order found.
IssuedCommands ==
    << [node |-> n_i, cmd |-> "nodetool compactionstats", arg |-> ""] >>
    \o [k \in 1..Len(n_found) |-> [node |-> n_i, cmd |-> "nodetool stop -id", arg |-> n_found[k]]]

\* C27: the commands of one operation on one node are run in the order issued
\* and each of them is run, with async_ false and with async_ true: when
\* stop_table_compactions has ended without a session failure, the commands
\* run on the node are the listing, then the stops, in order.
C27_CommandsInOrderEachExecuted ==
    (n_op = "stop_table_compactions" /\ NodeEnded) => n_cmds = IssuedCommands

(***************************************************************************)
(* The targets of the stop and clear commands of remove_table, checked     *)
(* under Spec.                                                             *)
(***************************************************************************)
\* The output of the listing command of this phase that ran on host n holds a
\* line of the keyspace and table whose first token is id.
ProducedBy(phase, n, id) ==
    \E i \in 1..Len(tasks) :
       /\ tasks[i].phase = phase
       /\ tasks[i].node = n
       /\ tasks[i].raw.kind = "result"
       /\ \E l \in 1..Len(tasks[i].raw.stdout) :
             LET line == tasks[i].raw.stdout[l]
             IN /\ Len(line) >= 3
                /\ line[1] = id
                /\ IF phase = "compactionstats"
                   THEN Len(line) >= 4 /\ line[3] = Keyspace /\ line[4] = Table
                   ELSE line[2] = Keyspace /\ line[3] = Table

\* A step that creates commands: a clearsnapshot goes to a host whose listing
\* held the snapshot; a stop goes to the host of a record of the list of
\* compactions, and each record of the list, when it is built, names a host
\* whose listing held the compaction; the list is not changed while it is used.
C28_Step ==
    gid' # gid
       => /\ \A j \in 1..Len(tasks') :
                (tasks'[j].gid = gid' /\ tasks'[j].phase = "clearsnapshot")
                   => ProducedBy("listsnapshots", tasks'[j].node, tasks'[j].arg)
          /\ \A j \in 1..Len(tasks') :
                (tasks'[j].gid = gid' /\ tasks'[j].phase = "stop_compaction")
                   => /\ ci' \in 1..Len(compactions')
                      /\ compactions'[ci'] = [node |-> tasks'[j].node,
                                              compaction_id |-> tasks'[j].arg]
                      /\ IF pc = "compactionstats"
                         THEN \A k \in 1..Len(compactions') :
                                 ProducedBy("compactionstats", compactions'[k].node,
                                            compactions'[k].compaction_id)
                         ELSE compactions' = compactions

\* C28: a stop-compaction or clear-snapshot command derived from a record is
\* sent only to the node whose output produced the record.
C28_RecordHasNoAuthorityElsewhere == [][C28_Step]_vars

\* Witness of C28: a stop command is out for a compaction that a node other
\* than the seed node reported.
C28_Witness ==
    /\ pc = "stop_compaction"
    /\ \E j \in 1..Len(tasks) :
          /\ tasks[j].phase = "stop_compaction"
          /\ tasks[j].node # get_remote_ips[1]
          /\ tasks[j].arg = "c1"

(***************************************************************************)
(* Cluster.restart, checked under SpecRolling.                             *)
(***************************************************************************)
\* Node k has been sent a command of its restart.
Touched(k) == k < cr_i \/ (k = cr_i /\ r_cmds # << >>)

\* C29: Cluster.restart is a rolling restart: a node is sent the commands of
\* its restart only after the restart of every node before it has returned
\* healthy, one node at a time; when the restart of a node times out or raises,
\* Cluster.restart ends there and the nodes after it are sent nothing.
C29_RollingRestart ==
    /\ \A k \in 1..Len(cr_done) : cr_done[k].node = k
    /\ cr_i <= NumNodes
    /\ \A k \in Nodes :
          Touched(k) => /\ k - 1 <= Len(cr_done)
                        /\ \A j \in 1..(k - 1) : cr_done[j].end = "healthy"
    /\ cr_pc = "running" => Len(cr_done) = cr_i - 1
    /\ cr_pc = "raised"
          => /\ Len(cr_done) = cr_i
             /\ cr_done[cr_i].end \in { "timedout", "raised" }
             /\ \A k \in Nodes : k > cr_i => ~Touched(k)
    /\ cr_pc = "returned"
          => /\ Len(cr_done) = NumNodes
             /\ \A k \in Nodes : cr_done[k].end = "healthy"

\* Witness of C29: the restart of the first node has timed out, Cluster.restart
\* has raised, and the node after it has been sent nothing.
C29_Witness ==
    /\ cr_pc = "raised"
    /\ cr_i = 1
    /\ cr_i < NumNodes
    /\ cr_done = << [node |-> 1, end |-> "timedout"] >>
    /\ ~Touched(2)

(***************************************************************************)
(* remove_geomesa_schema, checked under SpecSchema.                        *)
(***************************************************************************)
\* C30: no removal is started for any table of the schema unless every table
\* identified was reported as existing; when a table is reported not found
\* the workflow raises before the first removal step of the first table.
C30_RemovalGuardedByExistence ==
    /\ s_cmds # << >>
          => /\ Len(s_results) = Len(s_tables)
             /\ \A k \in 1..Len(s_results) :
                   s_results[k].kind = "result" /\ ~HasNotFound(s_results[k].stderr)
    /\ (\E k \in 1..Len(s_results) : HasNotFound(s_results[k].stderr))
          => (s_pc = "raised" /\ s_cmds = << >>)

\* Witness of C30: the first table was described, the second was not found,
\* and the workflow has raised without a removal.
C30_Witness ==
    /\ s_pc = "raised"
    /\ Len(s_results) = 2
    /\ s_results[1] = [kind |-> "result", stderr |-> ""]
    /\ s_results[2] = [kind |-> "result", stderr |-> "not found"]
    /\ s_cmds = << >>

(***************************************************************************)
(* The frame of clear_table_snapshots, checked under SpecSnap.             *)
(***************************************************************************)
\* The snapshots in S of the tables of the keyspace other than the table.
OtherTables(S) == { r \in S : r.keyspace = Keyspace /\ r.table # Table }

\* C31: clear_table_snapshots(K, T) leaves the snapshots of every other table
\* of K as they were, on every node.
C31_OtherTablesUnchanged ==
    \A n \in Nodes : OtherTables(sn_store[n]) = OtherTables(sn_before[n])

(***************************************************************************)
(* The end of the polling loop of Node.restart, checked under SpecRestart. *)
(***************************************************************************)
\* A poll is only sent while the time elapsed is below the timeout; once it
\* has reached the timeout the loop is left by the timeout, with no poll.
C32_Step ==
    /\ r_polls' # r_polls => (r_polls' = r_polls + 1 /\ r_elapsed < RESTART_TIMEOUT)
    /\ (r_pc = "loop" /\ r_elapsed >= RESTART_TIMEOUT)
          => (r_pc' = "timedout" /\ r_polls' = r_polls)

\* C32: restart raises the timeout only after at least one poll, every poll
\* having been false, and makes no poll once the time elapsed has reached the
\* timeout: after the sleep that crosses the deadline it raises without a last
\* poll, whatever the state of the node.
C32_PollBoundary ==
    /\ [](r_pc = "timedout"
             => (r_polls >= 1 /\ r_firstTrueAt = 0 /\ r_elapsed >= RESTART_TIMEOUT
                 /\ r_lastPoll < RESTART_TIMEOUT))
    /\ [][C32_Step]_vars

\* Witness of C32: the last poll was sent before the deadline and answered at
\* once, the sleep after it crossed the deadline, and restart has timed out.
C32_Witness ==
    /\ r_pc = "timedout"
    /\ r_elapsed >= RESTART_TIMEOUT
    /\ r_lastPoll = r_elapsed - POLL_INTERVAL
    /\ r_lastPoll < RESTART_TIMEOUT
    /\ r_service = "running"

(***************************************************************************)
(* The queries of Cluster.is_up, checked under SpecHealth.                 *)
(***************************************************************************)
\* The health queries node n has answered during the call.
Queries(n) ==
    { << e, k >> \in (1..Evaluations) \X (1..NumNodes) :
         k <= Len(h_reports[e]) /\ h_reports[e][k].node = n }

\* C33: when Cluster.is_up returns it has asked each node exactly once, and
\* the value it returns is the value it logged.
C33_IsUpQueriesOnceReturnsLogged ==
    h_pc = "returned"
       => /\ \A n \in Nodes : Cardinality(Queries(n)) = 1
          /\ h_result = h_logged

(***************************************************************************)
(* The async_ variants of the searches of Node, checked under SpecNode.    *)
(***************************************************************************)
\* What the synchronous search returns for a listing output.
SyncResult(op, result) ==
    IF op = "find_table_compactions"
    THEN Node_find_table_compactions(result, Keyspace, Table)
    ELSE Node_find_table_snapshots(result, Keyspace, Table)

\* C34: a search of Node called with async_ true ends as the synchronous
\* search does: it has run the listing command and returns the list the
\* synchronous search returns for the output of the command.
C34_AsyncEquivalentToSync ==
    (n_op \in { "find_table_compactions", "find_table_snapshots" } /\ n_async /\ NodeEnded)
       => /\ n_pc = "returned"
          /\ n_cmds = << [node |-> n_i, cmd |-> ListingCommand(n_op), arg |-> ""] >>
          /\ n_result = SyncResult(n_op, n_out)

(***************************************************************************)
(* The dispatch of the script of node.py, checked under SpecDispatch.      *)
(***************************************************************************)
\* The one call a command name stands for: the method of its branch, or for a
\* name the script does not know, node.run of the name.
ExpectedCall(c) ==
    IF c \in RecognisedCommands
    THEN [op |-> Operation[c], arg |-> ""]
    ELSE [op |-> "run", arg |-> c]

====
